---- MODULE Spec2Model ----
(***************************************************************************)
(* A model of ReviewbyGPT: the response extraction engine                  *)
(* (reviewbygpt/lib/review_data_parser.py), the score aggregator           *)
(* (ResponseProcessor.process_response) and the batch pipeline             *)
(* (PDFToExcelProcessor.run).                                              *)
(*                                                                         *)
(* Strings are sequences of one-character strings.  The four literal       *)
(* section markers are each one symbol of the alphabet (QA_START, ...):    *)
(* the code only ever searches for them as whole literals.  Scores are     *)
(* exact decimals counted in hundredths (1.0 is 100, 0.5 is 50).           *)
(***************************************************************************)
EXTENDS Integers, Sequences, FiniteSets, TLC

(***************************************************************************)
(* Characters and string primitives (Python str / re character classes).   *)
(***************************************************************************)
QA_START == "==QUALITY_ASSESSMENT_START=="
QA_END == "==QUALITY_ASSESSMENT_END=="
DE_START == "==DATA_EXTRACTION_START=="
DE_END == "==DATA_EXTRACTION_END=="

Digits == {"0", "1", "2", "3", "4", "5", "6", "7", "8", "9"}
Uppers == {"A", "B", "C", "D", "E", "F", "G", "H", "I", "J", "K", "L", "M",
           "N", "O", "P", "Q", "R", "S", "T", "U", "V", "W", "X", "Y", "Z"}
Lowers == {"a", "b", "c", "d", "e", "f", "g", "h", "i", "j", "k", "l", "m",
           "n", "o", "p", "q", "r", "s", "t", "u", "v", "w", "x", "y", "z"}

\* \s
IsSpace(c) == c \in {" ", "\n"}
\* \d
IsDigit(c) == c \in Digits
\* [0-9.]
IsScoreChar(c) == c \in Digits \cup {"."}
\* [A-Z]
IsUpper(c) == c \in Uppers
\* [A-Z\s]
IsKeyChar(c) == IsUpper(c) \/ IsSpace(c)

DigitValue(c) ==
    CASE c = "0" -> 0 [] c = "1" -> 1 [] c = "2" -> 2 [] c = "3" -> 3
      [] c = "4" -> 4 [] c = "5" -> 5 [] c = "6" -> 6 [] c = "7" -> 7
      [] c = "8" -> 8 [] c = "9" -> 9 [] OTHER -> 0

\* s[a:b] with 1-based a and exclusive 1-based b (empty when b <= a)
Slice(s, a, b) == IF b <= a THEN << >> ELSE SubSeq(s, a, b - 1)

Min(S) == CHOOSE x \in S : \A y \in S : x <= y

\* the first position >= i that holds no character of the class (Len(s)+1 at the end)
RECURSIVE SkipSpace(_, _)
SkipSpace(s, i) ==
    IF i <= Len(s) /\ IsSpace(s[i]) THEN SkipSpace(s, i + 1) ELSE i

RECURSIVE SkipDigits(_, _)
SkipDigits(s, i) ==
    IF i <= Len(s) /\ IsDigit(s[i]) THEN SkipDigits(s, i + 1) ELSE i

RECURSIVE SkipScoreChars(_, _)
SkipScoreChars(s, i) ==
    IF i <= Len(s) /\ IsScoreChar(s[i]) THEN SkipScoreChars(s, i + 1) ELSE i

RECURSIVE SkipKeyChars(_, _)
SkipKeyChars(s, i) ==
    IF i <= Len(s) /\ IsKeyChar(s[i]) THEN SkipKeyChars(s, i + 1) ELSE i

\* str.strip()
RECURSIVE RStrip(_)
RStrip(s) ==
    IF Len(s) > 0 /\ IsSpace(s[Len(s)]) THEN RStrip(SubSeq(s, 1, Len(s) - 1)) ELSE s

Strip(s) == LET a == SkipSpace(s, 1) IN RStrip(Slice(s, a, Len(s) + 1))

\* str.replace(c, "")
RemoveChar(s, c) == SelectSeq(s, LAMBDA x : x # c)

\* sub occurs in s at position i
StartsWithAt(s, sub, i) ==
    /\ i >= 1
    /\ i + Len(sub) - 1 <= Len(s)
    /\ \A k \in 1..Len(sub) : s[i + k - 1] = sub[k]

\* str.find(sub, start): the first position >= start where sub occurs, 0 when none
\* (Python's -1); positions are 1-based
Find(s, sub, start) ==
    LET hits == {i \in start..(Len(s) + 1) : StartsWithAt(s, sub, i)}
    IN  IF hits = {} THEN 0 ELSE Min(hits)

(***************************************************************************)
(* float(text) on the texts the alphabet can form: an optional sign, digits *)
(* with at most one point and at least one digit.  The value is counted in  *)
(* hundredths; further decimals are cut.                                    *)
(***************************************************************************)
RECURSIVE DigitsValue(_)
DigitsValue(s) ==
    IF s = << >> THEN 0
    ELSE 10 * DigitsValue(SubSeq(s, 1, Len(s) - 1)) + DigitValue(s[Len(s)])

FloatOk(text) ==
    LET t == Strip(text)
        u == IF Len(t) > 0 /\ t[1] \in {"-", "+"} THEN Tail(t) ELSE t
    IN  /\ \A k \in 1..Len(u) : IsScoreChar(u[k])
        /\ Cardinality({k \in 1..Len(u) : u[k] = "."}) <= 1
        /\ \E k \in 1..Len(u) : IsDigit(u[k])

FloatValue(text) ==
    LET t == Strip(text)
        neg == Len(t) > 0 /\ t[1] = "-"
        u == IF Len(t) > 0 /\ t[1] \in {"-", "+"} THEN Tail(t) ELSE t
        dot == Find(u, <<".">>, 1)
        whole == IF dot = 0 THEN u ELSE Slice(u, 1, dot)
        frac == IF dot = 0 THEN << >> ELSE Slice(u, dot + 1, Len(u) + 1)
        f1 == IF Len(frac) >= 1 THEN DigitValue(frac[1]) ELSE 0
        f2 == IF Len(frac) >= 2 THEN DigitValue(frac[2]) ELSE 0
        v == 100 * DigitsValue(whole) + 10 * f1 + f2
    IN  IF neg THEN 0 - v ELSE v

(***************************************************************************)
(* Field maps (Python dicts).  A value is a number or a string.            *)
(***************************************************************************)
Num(x) == [t |-> "num", n |-> x, s |-> << >>]
Str(x) == [t |-> "str", n |-> 0, s |-> x]
IsNum(v) == v.t = "num"

EmptyMap == << >>
Put(m, k, v) == [x \in (DOMAIN m) \cup {k} |-> IF x = k THEN v ELSE m[x]]
Remove(m, k) == [x \in (DOMAIN m) \ {k} |-> m[x]]
\* dict.get(k, default)
Get(m, k, default) == IF k \in DOMAIN m THEN m[k] ELSE default

S_QE == <<"Q", "E">>
S_COLON == <<":">>
S_SCORE == <<"_", "S", "C", "O", "R", "E">>
S_SCORE_COLON == <<"_", "S", "C", "O", "R", "E", ":">>
S_SCORE_MARKER == <<"_", "S", "C", "O", "R", "E", ":", " ">>
S_Score == <<"S", "c", "o", "r", "e">>
S_TOTAL_SCORE == <<"T", "O", "T", "A", "L", "_", "S", "C", "O", "R", "E">>
S_TITLE == <<"T", "I", "T", "L", "E">>
S_Total_Score == <<"T", "o", "t", "a", "l", " ", "S", "c", "o", "r", "e">>
S_SpaceScore == <<" ", "S", "c", "o", "r", "e">>

(***************************************************************************)
(* preprocess_qa_data(qa_data, total_score).  qa_data maps each item id to *)
(* its record {id: description, "SCORE": score} and "TOTAL_SCORE" to the   *)
(* total, which is no dict and takes the else branch.                      *)
(***************************************************************************)
\* a faulty flattening: the score key of an item is written only when its
\* score is not 0
PreprocessQaDataDropsZero(qa_data, total_score) ==
    LET ids == DOMAIN qa_data
        keys == ids \cup {id \o S_SCORE : id \in {x \in ids : qa_data[x].score # 0}}
                    \cup {S_TOTAL_SCORE, S_TOTAL_SCORE \o S_SCORE}
        flattened ==
            [k \in keys |->
                IF k \in ids THEN Str(qa_data[k].desc)
                ELSE IF k = S_TOTAL_SCORE THEN Num(total_score)
                ELSE IF k = S_TOTAL_SCORE \o S_SCORE THEN Str(<< >>)
                ELSE Num(qa_data[Slice(k, 1, Len(k) - Len(S_SCORE) + 1)].score)]
    IN  flattened

PreprocessQaData(qa_data, total_score) ==
    LET ids == DOMAIN qa_data
        keys == ids \cup {id \o S_SCORE : id \in ids}
                    \cup {S_TOTAL_SCORE, S_TOTAL_SCORE \o S_SCORE}
        flattened ==
            [k \in keys |->
                IF k \in ids THEN Str(qa_data[k].desc)
                ELSE IF k = S_TOTAL_SCORE THEN Num(total_score)
                ELSE IF k = S_TOTAL_SCORE \o S_SCORE THEN Str(<< >>)
                ELSE Num(qa_data[Slice(k, 1, Len(k) - Len(S_SCORE) + 1)].score)]
    IN  flattened

(***************************************************************************)
(* The marked block: re.search(START(.*?)END, DOTALL), group(1).strip().   *)
(* found is FALSE when the pattern has no match.                           *)
(***************************************************************************)
MarkedBlock(response, startMark, endMark) ==
    LET i == Find(response, <<startMark>>, 1)
        j == IF i = 0 THEN 0 ELSE Find(response, <<endMark>>, i + 1)
    IN  IF i = 0 \/ j = 0
        THEN [found |-> FALSE, content |-> << >>]
        ELSE [found |-> TRUE, content |-> Strip(Slice(response, i + 1, j))]

(***************************************************************************)
(* Tier 1 of the quality path:                                             *)
(*   (QE\d+):\s*(.*?)(?:\s*|\n)\1_SCORE:\s*([0-9.]+)   with DOTALL         *)
(* An attempt at position i needs QE, the whole run of digits and a colon; *)
(* the lazy description ends at the first b from which blanks, the item's  *)
(* own score marker, blanks and a score character follow; the score is the *)
(* whole run of [0-9.].                                                    *)
(***************************************************************************)
ItemTailAt(s, marker, b) ==
    LET m == SkipSpace(s, b)
        n == SkipSpace(s, m + Len(marker))
    IN  /\ StartsWithAt(s, marker, m)
        /\ n <= Len(s)
        /\ IsScoreChar(s[n])

ItemMatchAt(s, i) ==
    LET d == SkipDigits(s, i + 2)
        id == Slice(s, i, d)
        marker == id \o S_SCORE_COLON
        a == SkipSpace(s, d + 1)
        ends == {b \in a..(Len(s) + 1) : ItemTailAt(s, marker, b)}
        ok == /\ StartsWithAt(s, S_QE, i)
              /\ d > i + 2
              /\ d <= Len(s)
              /\ s[d] = ":"
              /\ ends # {}
        b == Min(ends)
        n == SkipSpace(s, SkipSpace(s, b) + Len(marker))
        e == SkipScoreChars(s, n)
    IN  IF ok
        THEN [ok |-> TRUE, id |-> id, desc |-> Slice(s, a, b),
              score |-> Slice(s, n, e), next |-> e]
        ELSE [ok |-> FALSE, id |-> << >>, desc |-> << >>, score |-> << >>, next |-> i + 1]

\* item_pattern.findall(qa_content): the matches from left to right
RECURSIVE ItemFindAll(_, _)
ItemFindAll(s, p) ==
    IF p > Len(s) THEN << >>
    ELSE LET m == ItemMatchAt(s, p)
         IN  IF m.ok THEN <<m>> \o ItemFindAll(s, m.next)
             ELSE ItemFindAll(s, p + 1)

(***************************************************************************)
(* The accumulation loop shared by the tiers: each parsed item is stored   *)
(* under its id (a later one replaces an earlier one) and its score is     *)
(* added to total_score; an item whose score text float() rejects is       *)
(* skipped when guarded is TRUE (try/except) and raises otherwise.         *)
(***************************************************************************)
RECURSIVE Accumulate(_, _, _)
Accumulate(matches, acc, guarded) ==
    IF matches = << >> \/ acc.raised THEN acc
    ELSE LET m == Head(matches)
             text == Strip(m.score)
         IN  IF FloatOk(text)
             THEN Accumulate(Tail(matches),
                     [raised |-> FALSE,
                      qa_data |-> Put(acc.qa_data, m.id,
                                      [desc |-> RemoveChar(Strip(m.desc), "\""),
                                       score |-> FloatValue(text)]),
                      total |-> acc.total + FloatValue(text)],
                     guarded)
             ELSE IF guarded THEN Accumulate(Tail(matches), acc, guarded)
             ELSE [acc EXCEPT !.raised = TRUE]

\* a faulty start of the loop: the total begins at one point
AccInitOnePoint == [raised |-> FALSE, qa_data |-> EmptyMap, total |-> 100]

\* qa_data = {} and total_score = 0 before the loop over the matches
AccInit == [raised |-> FALSE, qa_data |-> EmptyMap, total |-> 0]

(***************************************************************************)
(* Tier 2 of the quality path (the positional fallback).                   *)
(***************************************************************************)
\* re.findall(r'(QE\d+):', qa_content)
RECURSIVE QeIds(_, _)
QeIds(s, p) ==
    IF p > Len(s) THEN << >>
    ELSE LET d == SkipDigits(s, p + 2)
         IN  IF StartsWithAt(s, S_QE, p) /\ d > p + 2 /\ d <= Len(s) /\ s[d] = ":"
             THEN <<Slice(s, p, d)>> \o QeIds(s, d + 1)
             ELSE QeIds(s, p + 1)

\* the body of the loop over qe_ids for one qe_id: found is FALSE when the
\* iteration ends in continue
PositionalItem(s, qe_ids, qe_id) ==
    LET qe_start == Find(s, qe_id \o S_COLON, 1)
        after == qe_start + Len(qe_id) + 1
        others == {Find(s, qe_ids[k] \o S_COLON, after) :
                      k \in {j \in 1..Len(qe_ids) : qe_ids[j] # qe_id}} \ {0}
        next_qe_start == IF others = {} THEN 0 ELSE Min(others)
        score_marker == qe_id \o S_SCORE_COLON
        score_pos == IF qe_start = 0 THEN 0 ELSE Find(s, score_marker, qe_start)
        desc_end == IF next_qe_start = 0 \/ score_pos < next_qe_start
                    THEN score_pos ELSE next_qe_start
        score_start == score_pos + Len(score_marker)
        score_end == Find(s, <<" ">>, score_start)
        score_text == IF score_end = 0 THEN Slice(s, score_start, Len(s) + 1)
                      ELSE Slice(s, score_start, score_end)
    IN  IF qe_start = 0 \/ score_pos = 0
        THEN [found |-> FALSE, id |-> qe_id, desc |-> << >>, score |-> << >>]
        ELSE [found |-> TRUE, id |-> qe_id, desc |-> Slice(s, after, desc_end),
              score |-> score_text]

RECURSIVE PositionalItems(_, _, _)
PositionalItems(s, qe_ids, k) ==
    IF k > Len(qe_ids) THEN << >>
    ELSE LET it == PositionalItem(s, qe_ids, qe_ids[k])
         IN  (IF it.found THEN <<it>> ELSE << >>) \o PositionalItems(s, qe_ids, k + 1)

(***************************************************************************)
(* The legacy pattern, applied to the whole response:                      *)
(*  (QE\d+)[:\.]?\s*(.*?)\s*(?:QE\d+\s*Score|QE\d+Score|QE\d+_SCORE)       *)
(*      [:\.]?\s*([0-9.]+)     with DOTALL                                 *)
(* The scoring marker carries any identifier.  After the marker the        *)
(* optional ':' or '.' is taken when a score still follows it, and left to *)
(* the score otherwise.                                                    *)
(***************************************************************************)
\* a faulty marker test: the variant QEn_SCORE is not accepted
LegacyMarkerEndNoUnderscore(s, m) ==
    LET d == SkipDigits(s, m + 2)
        k == SkipSpace(s, d)
    IN  IF ~(StartsWithAt(s, S_QE, m) /\ d > m + 2) THEN 0
        ELSE IF StartsWithAt(s, S_Score, k) THEN k + Len(S_Score)
        ELSE 0

\* the position after a scoring marker that starts at m, 0 when none starts there
LegacyMarkerEnd(s, m) ==
    LET d == SkipDigits(s, m + 2)
        k == SkipSpace(s, d)
    IN  IF ~(StartsWithAt(s, S_QE, m) /\ d > m + 2) THEN 0
        ELSE IF StartsWithAt(s, S_Score, k) THEN k + Len(S_Score)
        ELSE IF StartsWithAt(s, S_SCORE, d) THEN d + Len(S_SCORE)
        ELSE 0

\* the position where the score starts after a marker that ends before e0, 0 when none
LegacyScoreStart(s, e0) ==
    LET withSep == SkipSpace(s, e0 + 1)
        noSep == SkipSpace(s, e0)
    IN  IF e0 <= Len(s) /\ s[e0] \in {":", "."}
             /\ withSep <= Len(s) /\ IsScoreChar(s[withSep])
        THEN withSep
        ELSE IF noSep <= Len(s) /\ IsScoreChar(s[noSep]) THEN noSep
        ELSE 0

LegacyTailAt(s, b) ==
    LET e0 == LegacyMarkerEnd(s, SkipSpace(s, b))
    IN  e0 # 0 /\ LegacyScoreStart(s, e0) # 0

LegacyMatchAt(s, i) ==
    LET d == SkipDigits(s, i + 2)
        p1 == IF d <= Len(s) /\ s[d] \in {":", "."} THEN d + 1 ELSE d
        a == SkipSpace(s, p1)
        ends == {b \in a..(Len(s) + 1) : LegacyTailAt(s, b)}
        ok == StartsWithAt(s, S_QE, i) /\ d > i + 2 /\ ends # {}
        b == Min(ends)
        n == LegacyScoreStart(s, LegacyMarkerEnd(s, SkipSpace(s, b)))
        e == SkipScoreChars(s, n)
    IN  IF ok
        THEN [ok |-> TRUE, id |-> Slice(s, i, d), desc |-> Slice(s, a, b),
              score |-> Slice(s, n, e), next |-> e]
        ELSE [ok |-> FALSE, id |-> << >>, desc |-> << >>, score |-> << >>, next |-> i + 1]

\* qa_pattern.findall(response)
RECURSIVE LegacyFindAll(_, _)
LegacyFindAll(s, p) ==
    IF p > Len(s) THEN << >>
    ELSE LET m == LegacyMatchAt(s, p)
         IN  IF m.ok THEN <<m>> \o LegacyFindAll(s, m.next)
             ELSE LegacyFindAll(s, p + 1)

\* a call's outcome: it raised, or it returned map
Outcome(acc) ==
    IF acc.raised THEN [raised |-> TRUE, map |-> EmptyMap]
    ELSE [raised |-> FALSE, map |-> PreprocessQaData(acc.qa_data, acc.total)]

\* float(score.strip()) stands outside any try block here
LegacyGetQualityAssessmentText(response) ==
    Outcome(Accumulate(LegacyFindAll(response, 1), AccInit, FALSE))

GetQualityAssessmentText(response) ==
    LET block == MarkedBlock(response, QA_START, QA_END)
        qa_content == block.content
        matches == ItemFindAll(qa_content, 1)
        qe_ids == QeIds(qa_content, 1)
    IN  IF ~block.found THEN LegacyGetQualityAssessmentText(response)
        ELSE IF matches = << >>
        THEN Outcome(Accumulate(PositionalItems(qa_content, qe_ids, 1), AccInit, TRUE))
        ELSE Outcome(Accumulate(matches, AccInit, TRUE))

\* the tier whose items get_quality_assessment_text returns: the legacy
\* pattern when the marker pattern has no match, else tier 1 when its
\* pattern has a match, else tier 2
QaTier(response) ==
    LET block == MarkedBlock(response, QA_START, QA_END)
    IN  IF ~block.found THEN "legacy"
        ELSE IF ItemFindAll(block.content, 1) = << >> THEN "tier2"
        ELSE "tier1"


(***************************************************************************)
(* The data path, tier 1:                                                  *)
(*   ([A-Z][A-Z\s]+(?:\sOF\s[A-Z]+)?)\s*:\s*(.*?)                          *)
(*        (?=\s+[A-Z][A-Z\s]+(?:\sOF\s[A-Z]+)?:|$)     with DOTALL         *)
(* Every character the key part can consume is in [A-Z\s] and ':' is not,  *)
(* so a key starting at i runs to the first character outside [A-Z\s],     *)
(* which must be the colon; the greedy [A-Z\s]+ takes that whole run (the  *)
(* OF group and the \s* are left empty).  The lazy value ends at the first *)
(* position where the lookahead holds.                                     *)
(***************************************************************************)
\* a key of at least two characters starts at i and runs to a colon
KeyAt(s, i) ==
    LET r == SkipKeyChars(s, i + 1)
    IN  /\ i >= 1 /\ i <= Len(s)
        /\ IsUpper(s[i])
        /\ r > i + 1
        /\ r <= Len(s)
        /\ s[r] = ":"

\* $ without MULTILINE: the end, or before a line break that ends the string
AtEnd(s, q) == q = Len(s) + 1 \/ (q = Len(s) /\ s[q] = "\n")

\* a faulty lookahead: only the end of the block ends a value
FieldLookaheadEndOnly(s, q) == AtEnd(s, q)

\* (?=\s+[A-Z][A-Z\s]+(?:\sOF\s[A-Z]+)?:|$)
FieldLookahead(s, q) ==
    \/ AtEnd(s, q)
    \/ /\ q <= Len(s)
       /\ IsSpace(s[q])
       /\ KeyAt(s, SkipSpace(s, q))

\* a faulty pattern: an upper-case letter ends the value as well
FieldMatchAtNoUpperValue(s, i) ==
    LET r == SkipKeyChars(s, i + 1)
        v0 == SkipSpace(s, r + 1)
        q == Min({x \in v0..(Len(s) + 1) :
                    FieldLookahead(s, x) \/ (x <= Len(s) /\ IsUpper(s[x]))})
    IN  IF KeyAt(s, i)
        THEN [ok |-> TRUE, key |-> Slice(s, i, r), value |-> Slice(s, v0, q), next |-> q]
        ELSE [ok |-> FALSE, key |-> << >>, value |-> << >>, next |-> i + 1]

FieldMatchAt(s, i) ==
    LET r == SkipKeyChars(s, i + 1)
        v0 == SkipSpace(s, r + 1)
        q == Min({x \in v0..(Len(s) + 1) : FieldLookahead(s, x)})
    IN  IF KeyAt(s, i)
        THEN [ok |-> TRUE, key |-> Slice(s, i, r), value |-> Slice(s, v0, q), next |-> q]
        ELSE [ok |-> FALSE, key |-> << >>, value |-> << >>, next |-> i + 1]

\* field_pattern.findall(de_content)
RECURSIVE FieldFindAll(_, _)
FieldFindAll(s, p) ==
    IF p > Len(s) THEN << >>
    ELSE LET m == FieldMatchAt(s, p)
         IN  IF m.ok THEN <<m>> \o FieldFindAll(s, m.next)
             ELSE FieldFindAll(s, p + 1)

\* for key, value in matches: de_data[key.strip()] = value.strip()
RECURSIVE StoreFields(_, _)
StoreFields(matches, de_data) ==
    IF matches = << >> THEN de_data
    ELSE StoreFields(Tail(matches),
                     Put(de_data, Strip(Head(matches).key), Strip(Head(matches).value)))

(***************************************************************************)
(* Tier 2 (manual boundary walk) and tier 3 (split on colons).             *)
(***************************************************************************)
\* re.findall(r'([A-Z][A-Z\s]+(?:\sOF\s[A-Z]+)?)\s*:', de_content)
RECURSIVE PotentialKeys(_, _)
PotentialKeys(s, p) ==
    IF p > Len(s) THEN << >>
    ELSE IF KeyAt(s, p)
         THEN LET r == SkipKeyChars(s, p + 1)
              IN  <<Slice(s, p, r)>> \o PotentialKeys(s, r + 1)
         ELSE PotentialKeys(s, p + 1)

RECURSIVE ManualFields(_, _, _, _)
ManualFields(s, potential_keys, i, de_data) ==
    IF i > Len(potential_keys) THEN de_data
    ELSE LET key == potential_keys[i]
             key_pos == Find(s, key \o S_COLON, 1)
             value_start == key_pos + Len(key) + 1
             next_key_pos == IF i < Len(potential_keys)
                             THEN Find(s, potential_keys[i + 1] \o S_COLON, value_start)
                             ELSE 0
             value_end == IF next_key_pos # 0 THEN next_key_pos ELSE Len(s) + 1
         IN  IF key_pos = 0 THEN ManualFields(s, potential_keys, i + 1, de_data)
             ELSE ManualFields(s, potential_keys, i + 1,
                     Put(de_data, Strip(key), Strip(Slice(s, value_start, value_end))))

\* de_content.split(':')
RECURSIVE SplitOn(_, _)
SplitOn(s, c) ==
    LET k == Find(s, <<c>>, 1)
    IN  IF k = 0 THEN <<s>>
        ELSE <<Slice(s, 1, k)>> \o SplitOn(Slice(s, k + 1, Len(s) + 1), c)

\* re.search(r'([A-Z][A-Z\s]+)$', key_part): the start of the match, 0 when none
TrailingKeyStart(part) ==
    LET starts == {j \in 1..Len(part) :
                      /\ IsUpper(part[j])
                      /\ SkipKeyChars(part, j + 1) = Len(part) + 1
                      /\ SkipKeyChars(part, j + 1) > j + 1}
    IN  IF starts = {} THEN 0 ELSE Min(starts)

\* re.search(r'^(.*?)(?=[A-Z][A-Z\s]+:|$)', value_part, DOTALL).group(1)
SplitValue(part) ==
    Slice(part, 1, Min({q \in 1..(Len(part) + 1) : AtEnd(part, q) \/ KeyAt(part, q)}))

RECURSIVE SplitFields(_, _, _)
SplitFields(parts, i, de_data) ==
    IF i >= Len(parts) THEN de_data
    ELSE LET key_part == Strip(parts[i])
             j == TrailingKeyStart(key_part)
         IN  IF j = 0 THEN SplitFields(parts, i + 1, de_data)
             ELSE SplitFields(parts, i + 1,
                     Put(de_data, Strip(Slice(key_part, j, Len(key_part) + 1)),
                         Strip(SplitValue(parts[i + 1]))))

(***************************************************************************)
(* The emergency pattern:                                                  *)
(*   TITLE\s*:(.*?)(?=\s[A-Z]{2,}|$)    with IGNORECASE and DOTALL         *)
(***************************************************************************)
IsLetter(c) == c \in Uppers \cup Lowers

\* c and d are the same letter in either case
SameLetter(c, d) ==
    \/ c = d
    \/ \E x \in {<<"T", "t">>, <<"I", "i">>, <<"L", "l">>, <<"E", "e">>} :
          {c, d} = {x[1], x[2]}

TitleAt(s, i) ==
    LET c == SkipSpace(s, i + Len(S_TITLE))
    IN  /\ i + Len(S_TITLE) - 1 <= Len(s)
        /\ \A k \in 1..Len(S_TITLE) : SameLetter(s[i + k - 1], S_TITLE[k])
        /\ c <= Len(s)
        /\ s[c] = ":"

TitleLookahead(s, q) ==
    \/ AtEnd(s, q)
    \/ /\ q + 2 <= Len(s)
       /\ IsSpace(s[q])
       /\ IsLetter(s[q + 1])
       /\ IsLetter(s[q + 2])

\* the emergency match: found, and group(1)
EmergencyTitle(s) ==
    LET starts == {i \in 1..Len(s) : TitleAt(s, i)}
        i == Min(starts)
        v0 == SkipSpace(s, i + Len(S_TITLE)) + 1
        q == Min({x \in v0..(Len(s) + 1) : TitleLookahead(s, x)})
    IN  IF starts = {} THEN [found |-> FALSE, title |-> << >>]
        ELSE [found |-> TRUE, title |-> Slice(s, v0, q)]

(***************************************************************************)
(* The legacy data path (no markers): the section after the heading, cut   *)
(* at the earliest end marker, read line by line.                          *)
(***************************************************************************)
S_DataExtraction == <<"D", "a", "t", "a", " ", "E", "x", "t", "r", "a", "c", "t", "i", "o", "n">>
S_data_extraction == <<"d", "a", "t", "a", " ", "e", "x", "t", "r", "a", "c", "t", "i", "o", "n">>
S_MinimumAcceptanceScore ==
    <<"M", "i", "n", "i", "m", "u", "m", " ", "a", "c", "c", "e", "p", "t", "a", "n", "c", "e",
      " ", "s", "c", "o", "r", "e">>
S_SECTION3 == <<"S", "E", "C", "T", "I", "O", "N", " ", "3">>
S_CutoffScore == <<"C", "u", "t", "o", "f", "f", " ", "S", "c", "o", "r", "e">>
S_TripleNewline == <<"\n", "\n", "\n">>

extraction_markers ==
    <<S_DataExtraction, S_DataExtraction \o <<":">>, S_DataExtraction \o <<"\n">>,
      S_DataExtraction \o <<":", "\n">>>>
end_markers == <<S_MinimumAcceptanceScore, S_SECTION3, S_CutoffScore, S_TripleNewline>>

UpperSeq == <<"A", "B", "C", "D", "E", "F", "G", "H", "I", "J", "K", "L", "M",
              "N", "O", "P", "Q", "R", "S", "T", "U", "V", "W", "X", "Y", "Z">>
LowerSeq == <<"a", "b", "c", "d", "e", "f", "g", "h", "i", "j", "k", "l", "m",
              "n", "o", "p", "q", "r", "s", "t", "u", "v", "w", "x", "y", "z">>
\* str.lower()
LowerChar(c) ==
    IF c \in Uppers THEN LowerSeq[CHOOSE k \in 1..Len(UpperSeq) : UpperSeq[k] = c] ELSE c
Lower(s) == [k \in 1..Len(s) |-> LowerChar(s[k])]

\* the position after the first marker of the list found in the response, 0 when none
RECURSIVE LegacyStartIdx(_, _)
LegacyStartIdx(response, k) ==
    IF k > Len(extraction_markers) THEN 0
    ELSE IF Find(response, extraction_markers[k], 1) # 0
         THEN Find(response, extraction_markers[k], 1) + Len(extraction_markers[k])
         ELSE LegacyStartIdx(response, k + 1)

LegacyEndIdx(response, start_idx) ==
    Min({Len(response) + 1}
        \cup ({Find(response, end_markers[k], start_idx) : k \in 1..Len(end_markers)} \ {0}))

RECURSIVE LegacyLines(_, _)
LegacyLines(lines, de_data) ==
    IF lines = << >> THEN de_data
    ELSE LET line == Strip(Head(lines))
             c == Find(line, S_COLON, 1)
             key == Strip(RemoveChar(RemoveChar(Strip(Slice(line, 1, c)), "\""), "*"))
             value == Strip(RemoveChar(Strip(Slice(line, c + 1, Len(line) + 1)), "\""))
         IN  IF line = << >> \/ Lower(line) = S_data_extraction \/ c = 0 \/ key = << >>
             THEN LegacyLines(Tail(lines), de_data)
             ELSE LegacyLines(Tail(lines), Put(de_data, key, value))

LegacyGetDataExtractionText(response) ==
    LET start_idx == LegacyStartIdx(response, 1)
        end_idx == LegacyEndIdx(response, start_idx)
        data_section == Strip(Slice(response, start_idx, end_idx))
    IN  IF start_idx = 0 THEN EmptyMap
        ELSE LegacyLines(SplitOn(data_section, "\n"), EmptyMap)

(***************************************************************************)
(* get_data_extraction_text(response)                                      *)
(***************************************************************************)
MarkedDataFields(de_content) ==
    LET matches == FieldFindAll(de_content, 1)
        potential_keys == PotentialKeys(de_content, 1)
        parts == SplitOn(de_content, ":")
    IN  IF matches # << >> THEN StoreFields(matches, EmptyMap)
        ELSE IF potential_keys # << >>
        THEN ManualFields(de_content, potential_keys, 1, EmptyMap)
        ELSE IF Len(parts) > 1 THEN SplitFields(parts, 1, EmptyMap)
        ELSE EmptyMap

GetDataExtractionText(response) ==
    LET block == MarkedBlock(response, DE_START, DE_END)
        de_content == block.content
        de_data == MarkedDataFields(de_content)
        title_match == EmergencyTitle(de_content)
    IN  IF ~block.found THEN LegacyGetDataExtractionText(response)
        ELSE IF de_content # << >> /\ de_data = EmptyMap /\ title_match.found
        THEN Put(de_data, S_TITLE, Strip(title_match.title))
        ELSE de_data

\* the branch of get_data_extraction_text that fills de_data: the legacy path
\* when the marker pattern has no match, else the field pattern when it has a
\* match, else the manual walk when potential_keys is not empty, else the
\* split by colons
DataTier(response) ==
    LET block == MarkedBlock(response, DE_START, DE_END)
    IN  IF ~block.found THEN "legacy"
        ELSE IF FieldFindAll(block.content, 1) # << >> THEN "tier1"
        ELSE IF PotentialKeys(block.content, 1) # << >> THEN "tier2"
        ELSE "tier3"

(***************************************************************************)
(* The responses the model feeds to the parser.  A response is written by  *)
(* the LLM as a list of quality items and a list of data fields, each in   *)
(* one of a few shapes, inside or outside the section markers.             *)
(***************************************************************************)
MaxItems == 2
MaxFields == 2

SeqsUpTo(S, n) == UNION {[1..k -> S] : k \in 0..n}

RECURSIVE Concat(_)
Concat(ss) == IF ss = << >> THEN << >> ELSE Head(ss) \o Concat(Tail(ss))

QE1 == <<"Q", "E", "1">>
QE2 == <<"Q", "E", "2">>
ItemIds == {QE1, QE2}
\* descriptions: plain words, and words in double quotes
ItemDescs == {<<"G", "o", "o", "d", " ", "p", "a", "p", "e", "r">>,
              <<"\"", "W", "e", "a", "k", "\"">>}
\* the scoring marker written after the repeated id
ItemMarkers == {<<"_", "S", "C", "O", "R", "E", ":", " ">>,
                <<" ", "S", "c", "o", "r", "e", ":", " ">>}
\* score texts: 1.0, 0.5, 0 and one that float() rejects
ValidScores == {<<"1", ".", "0">>, <<"0", ".", "5">>, <<"0">>}
ItemScores == ValidScores \cup {<<"1", ".", "2", ".", "3">>}
Separators == {<<" ">>, <<"\n">>}

QaItems == [id : ItemIds, desc : ItemDescs, marker : ItemMarkers, score : ItemScores]

\* `QEn: description<sep>QEn<marker><score><sep>`
RenderItem(it, sep) ==
    it.id \o <<":", " ">> \o it.desc \o sep \o it.id \o it.marker \o it.score \o sep

RenderQa(items, sep, marked) ==
    LET body == Concat([k \in 1..Len(items) |-> RenderItem(items[k], sep)])
    IN  IF marked THEN <<QA_START>> \o sep \o body \o <<QA_END>> ELSE body

K_TITLE == S_TITLE
K_YEAR == <<"Y", "E", "A", "R">>
K_DOF == <<"D", "O", "F", " ", "O", "F", " ", "A", "R", "M">>
K_title == <<"t", "i", "t", "l", "e">>
UpperKeys == {K_TITLE, K_YEAR, K_DOF}
FieldKeys == UpperKeys \cup {K_title}
V_JaneDoe == <<"J", "a", "n", "e", " ", "D", "o", "e">>
V_2023 == <<"2", "0", "2", "3">>
V_IEEE == <<"I", "E", "E", "E">>
V_JaneD == <<"J", "a", "n", "e", " ", "D">>
\* values whose every word holds a lower-case letter or a digit
MixedCaseValues == {V_JaneDoe, V_2023}
FieldValues == MixedCaseValues \cup {V_IEEE, V_JaneD, << >>}

DeFields == [key : FieldKeys, value : FieldValues]

\* `KEY: value<sep>`
RenderField(f, sep) == f.key \o <<":", " ">> \o f.value \o sep

\* wrap: "marked" (between the markers), "heading" (after a Data Extraction
\* heading line, no markers) or "bare" (neither)
RenderDe(fields, sep, wrap) ==
    LET body == Concat([k \in 1..Len(fields) |-> RenderField(fields[k], sep)])
    IN  IF wrap = "marked" THEN <<DE_START>> \o sep \o body \o <<DE_END>>
        ELSE IF wrap = "heading" THEN S_DataExtraction \o <<":", "\n">> \o body
        ELSE body

(***************************************************************************)
(* State.                                                                  *)
(***************************************************************************)
VARIABLES
    qa_items,    \* the quality items the response was written from
    de_fields,   \* the data fields the response was written from
    layout,      \* [sep, qa_marked, de_wrap]: how the response was laid out
    response,    \* the response string
    pc,          \* the control point of the caller
    qa_out,      \* the outcome of get_quality_assessment_text
    de_out,      \* the outcome of get_data_extraction_text
    excluding_questions,  \* self.excluding_questions (a list of item ids)
    cutoff_score,         \* self.cutoff_score, in hundredths
    workbook,    \* analysed.xlsx: sheet name -> [headers, rows]
    result,      \* the dict process_response returns
    pdf_files,   \* run: per PDF, the folder it is in and the response it got
    num_question, \* run: the questions asked in the current conversation
    clock,       \* what datetime.now() returns: the second of the day
    calls,       \* per finished process_response call, what it extracted
    document,    \* the configuration file (review_data.yaml) as it is on disk
    config_out,  \* per configuration getter called so far, its outcome
    requests,    \* run: the prompts posted to the language model so far
    file,        \* analysed.xlsx on disk: "missing", "valid" or "corrupted"
    last_call,   \* the last call of an ExcelDataParser method and its return
    paper_data,  \* extract_missing_fields: the dict passed as paper_data
    response_file, \* extract_missing_fields: the response file on disk
    updated_data, \* extract_missing_fields: what the call returned
    prompt_in,   \* send_prompt: the arguments and the manager's settings
    prompt_out,  \* send_prompt: what the call returned
    stack        \* apply_excel_template: the frames of the call now on the stack

inputVars == <<qa_items, de_fields, layout, response>>
configVars == <<excluding_questions, cutoff_score>>
vars == <<qa_items, de_fields, layout, response, pc, qa_out, de_out,
          excluding_questions, cutoff_score, workbook, result,
          pdf_files, num_question, clock, calls, document, config_out, requests,
          file, last_call, paper_data, response_file, updated_data, prompt_in,
          prompt_out, stack>>
runVars == <<pdf_files, num_question, requests>>
clockVars == <<clock, calls>>
\* the state of the components that the parser and the folder run leave alone
promptVars == <<document, config_out>>
storeVars == <<file, last_call>>
fillerVars == <<paper_data, response_file, updated_data>>
ollamaVars == <<prompt_in, prompt_out>>
sideVars == <<fillerVars, ollamaVars, stack>>
otherVars == <<clockVars, promptVars, storeVars, sideVars>>

NoOutcome == [raised |-> FALSE, map |-> EmptyMap]

NoReason == [kind |-> "none", id |-> << >>]
\* the result dict as process_response initialises it
InitialResult ==
    [success |-> FALSE, title |-> << >>, score |-> 0, qa_added |-> FALSE,
     de_added |-> FALSE, rejected |-> FALSE, reason |-> NoReason]

\* the declared configuration (review_data.yaml)
DeclaredQaIds == <<QE1, QE2>>
DeclaredDeKeys == <<K_TITLE, K_YEAR, K_DOF>>

\* the unused parts of the state of a specification that only calls the parser
IdleProcessor ==
    /\ excluding_questions = << >>
    /\ cutoff_score = 0
    /\ workbook = << >>
    /\ result = InitialResult

\* the unused parts of the state of the components named in otherVars
NoDocument == [kind |-> "empty"]
NoCall == [op |-> "none", sheet |-> "", data |-> EmptyMap, ok |-> FALSE, saved |-> FALSE]
\* the workbook file is there and loads; no method was called on it
IdleStore ==
    /\ file = "valid"
    /\ last_call = NoCall

NotReturned == [returned |-> FALSE, value |-> << >>]
\* no call of extract_missing_fields, send_prompt or apply_excel_template is
\* under way
IdleSide ==
    /\ paper_data = EmptyMap
    /\ response_file = [readable |-> FALSE, content |-> << >>]
    /\ updated_data = NotReturned
    /\ prompt_in = << >>
    /\ prompt_out = NotReturned
    /\ stack = 0

IdleOthers ==
    /\ clock = 0
    /\ calls = << >>
    /\ document = NoDocument
    /\ config_out = << >>
    /\ IdleStore
    /\ IdleSide

\* the unused parts of the state of a specification without a folder run
IdleRun ==
    /\ pdf_files = << >>
    /\ num_question = 0
    /\ requests = << >>

(***************************************************************************)
(* SpecQA: get_quality_assessment_text applied to one response.            *)
(***************************************************************************)
InitQA ==
    /\ qa_items \in SeqsUpTo(QaItems, MaxItems)
    /\ de_fields = << >>
    /\ layout \in [sep : Separators, qa_marked : BOOLEAN, de_wrap : {"bare"}]
    /\ response = RenderQa(qa_items, layout.sep, layout.qa_marked)
    /\ pc = "start"
    /\ qa_out = NoOutcome
    /\ de_out = NoOutcome
    /\ IdleProcessor
    /\ IdleRun
    /\ IdleOthers

CallGetQualityAssessmentText ==
    /\ pc = "start"
    /\ qa_out' = GetQualityAssessmentText(response)
    /\ pc' = "qa_done"
    /\ UNCHANGED <<inputVars, de_out, configVars, workbook, result, runVars, otherVars>>

SpecQA == InitQA /\ [][CallGetQualityAssessmentText]_vars

(***************************************************************************)
(* SpecDE: get_data_extraction_text applied to one response.               *)
(***************************************************************************)
InitDE ==
    /\ qa_items = << >>
    /\ de_fields \in SeqsUpTo(DeFields, MaxFields)
    /\ layout \in [sep : Separators, qa_marked : {FALSE}, de_wrap : {"marked", "heading", "bare"}]
    /\ response = RenderDe(de_fields, layout.sep, layout.de_wrap)
    /\ pc = "start"
    /\ qa_out = NoOutcome
    /\ de_out = NoOutcome
    /\ IdleProcessor
    /\ IdleRun
    /\ IdleOthers

CallGetDataExtractionText ==
    /\ pc = "start"
    /\ de_out' = [raised |-> FALSE, map |-> GetDataExtractionText(response)]
    /\ pc' = "de_done"
    /\ UNCHANGED <<inputVars, qa_out, configVars, workbook, result, runVars, otherVars>>

SpecDE == InitDE /\ [][CallGetDataExtractionText]_vars

(***************************************************************************)
(* analysed.xlsx.  A sheet is its header row and its data rows; a row maps *)
(* each header to a cell.  The workbook is taken to stay loadable and to   *)
(* keep the sheets the templates created.                                  *)
(***************************************************************************)
EmptySheet == [headers |-> << >>, rows |-> << >>]

\* apply_excel_template(sheet_name, identifiers): the header cells are
\* written, one per identifier, only while the sheet has no data row
ApplyExcelTemplate(wb, sheet_name, identifiers) ==
    LET ws == IF sheet_name \in DOMAIN wb THEN wb[sheet_name] ELSE EmptySheet
        is_qa_sheet == \E i \in 1..Len(identifiers) : StartsWithAt(identifiers[i], S_QE, 1)
        has_title == \E i \in 1..Len(identifiers) : identifiers[i] = S_TITLE
        ids == IF is_qa_sheet /\ ~has_title THEN <<S_TITLE>> \o identifiers ELSE identifiers
        headers == IF ws.rows = << >>
                   THEN ids \o SubSeq(ws.headers, Len(ids) + 1, Len(ws.headers))
                   ELSE ws.headers
    IN  [x \in (DOMAIN wb) \cup {sheet_name} |->
            IF x = sheet_name THEN [headers |-> headers, rows |-> ws.rows] ELSE wb[x]]

\* fill_excel_with_data(sheet_name, data) on an existing sheet: one row is
\* appended, holding data.get(header, "") under every header
FillExcelWithData(wb, sheet_name, data) ==
    LET ws == wb[sheet_name]
        headers == {ws.headers[i] : i \in 1..Len(ws.headers)}
        row == [h \in headers |-> Get(data, h, Str(<< >>))]
    IN  IF ws.headers = << >> THEN wb
        ELSE [wb EXCEPT ![sheet_name].rows = Append(@, row)]

\* a data map as the cells it is written to
AsCells(de_data) == [k \in DOMAIN de_data |-> Str(de_data[k])]

(***************************************************************************)
(* ResponseProcessor (process_pasted_response.py).                         *)
(***************************************************************************)
S_Title == <<"T", "i", "t", "l", "e">>
\* the generic title, before its time stamp
S_UntitledPaper == <<"U", "n", "t", "i", "t", "l", "e", "d", " ", "P", "a", "p", "e", "r", " ">>
\* the day the program runs on, as %Y%m%d
S_Today == <<"2", "0", "2", "5", "0", "1", "0", "1">>

DigitChar(d) == CHOOSE c \in Digits : DigitValue(c) = d
TwoDigits(n) == <<DigitChar((n \div 10) % 10), DigitChar(n % 10)>>
\* datetime.now().strftime('%Y%m%d_%H%M%S'), now being the second of the day
TimeStamp(now) ==
    S_Today \o <<"_">> \o TwoDigits(now \div 3600) \o TwoDigits((now \div 60) % 60)
    \o TwoDigits(now % 60)
TitleKeys == <<S_TITLE, S_Title, K_title>>

RECURSIVE ScoredIdentifiers(_)
ScoredIdentifiers(ids) ==
    IF ids = << >> THEN << >>
    ELSE <<Head(ids), Head(ids) \o S_SCORE>> \o ScoredIdentifiers(Tail(ids))

\* _ensure_excel_file_exists, on a folder without analysed.xlsx
EnsureExcelFileExists ==
    ApplyExcelTemplate(
        ApplyExcelTemplate(<< >>, "qa_sheet",
                           <<S_TITLE>> \o ScoredIdentifiers(DeclaredQaIds) \o <<S_TOTAL_SCORE>>),
        "de_sheet", DeclaredDeKeys)

\* the title loop: the value under the first of TITLE, Title, title that is
\* a key of de_data; an empty or missing title gives the generic one
RECURSIVE FirstTitle(_, _)
FirstTitle(de_data, keys) ==
    IF keys = << >> THEN << >>
    ELSE IF Head(keys) \in DOMAIN de_data THEN de_data[Head(keys)]
    ELSE FirstTitle(de_data, Tail(keys))

PaperTitle(de_data, now) ==
    LET paper_title == FirstTitle(de_data, TitleKeys)
    IN  IF paper_title = << >> THEN S_UntitledPaper \o TimeStamp(now) ELSE paper_title

\* a faulty test: a score that is absent counts as 0
IsZeroScoreAbsentIsZero(qa_data, e_question) ==
    LET v == Get(qa_data, e_question \o S_SCORE, Num(0))
    IN  IsNum(v) /\ v.n = 0

\* qa_data.get(f"{e_question}_SCORE", -1) == 0
IsZeroScore(qa_data, e_question) ==
    LET v == Get(qa_data, e_question \o S_SCORE, Num(-1))
    IN  IsNum(v) /\ v.n = 0

\* the loop over the excluding questions: the first one with a zero score
\* rejects the paper and gives the reason
RECURSIVE ExcludingRejection(_, _)
ExcludingRejection(qa_data, questions) ==
    IF questions = << >> THEN [rejected |-> FALSE, reason |-> NoReason]
    ELSE IF IsZeroScore(qa_data, Head(questions))
         THEN [rejected |-> TRUE, reason |-> [kind |-> "excluding", id |-> Head(questions)]]
    ELSE ExcludingRejection(qa_data, Tail(questions))

\* a faulty test: the rejection by an excluding question is not looked at
MeetsCutoffIgnoringRejection(paper_score, cutoff, rejected) == paper_score >= cutoff

\* the test that admits the data row
MeetsCutoff(paper_score, cutoff, rejected) == paper_score >= cutoff /\ ~rejected

\* a faulty else branch: the cutoff reason replaces any earlier reason
BelowCutoffOverwrites(sofar) ==
    [rejected |-> TRUE, reason |-> [kind |-> "cutoff", id |-> << >>]]

\* the else branch of that test: a paper not yet rejected gets the cutoff reason
BelowCutoffRejection(sofar) ==
    IF ~sofar.rejected
    THEN [rejected |-> TRUE, reason |-> [kind |-> "cutoff", id |-> << >>]]
    ELSE sofar

\* process_response from the title lookup on, given the two parsed maps
\* (qa is the outcome of get_quality_assessment_text) and the time of the
\* call: the returned dict, the workbook it leaves, and the two maps as the
\* function holds them at its end
ProcessParsed(de_data, qa, questions, cutoff, wb, now) ==
    IF qa.raised
    THEN [result |-> [InitialResult EXCEPT !.title = PaperTitle(de_data, now),
                                            !.reason = [kind |-> "error", id |-> << >>]],
          workbook |-> wb, qa_data |-> EmptyMap, de_data |-> de_data]
    ELSE
    LET paper_title == PaperTitle(de_data, now)
        paper_score == Get(qa.map, S_TOTAL_SCORE, Num(0)).n
        qa_data == Put(Remove(qa.map, S_TOTAL_SCORE), S_TITLE, Str(paper_title))
        excluded == ExcludingRejection(qa_data, questions)
        wb_qa == FillExcelWithData(wb, "qa_sheet", Put(qa_data, S_TOTAL_SCORE, Num(paper_score)))
        admitted == MeetsCutoff(paper_score, cutoff, excluded.rejected)
        write_de == admitted /\ de_data # EmptyMap
        wb_de == IF write_de
                 THEN FillExcelWithData(wb_qa, "de_sheet", AsCells(Put(de_data, S_TITLE, paper_title)))
                 ELSE wb_qa
        final == IF admitted THEN excluded ELSE BelowCutoffRejection(excluded)
    IN  [result |-> [success |-> TRUE, title |-> paper_title, score |-> paper_score,
                     qa_added |-> TRUE, de_added |-> write_de,
                     rejected |-> final.rejected, reason |-> final.reason],
         workbook |-> wb_de,
         qa_data |-> qa_data,
         de_data |-> IF write_de THEN Put(de_data, S_TITLE, paper_title) ELSE de_data]

\* process_response(response_text)
ProcessResponseBody(response_text, questions, cutoff, wb, now) ==
    ProcessParsed(GetDataExtractionText(response_text),
                  GetQualityAssessmentText(response_text), questions, cutoff, wb, now)

\* inputs of the processor: one description and one marker per item, a
\* title field or none, the declared excluding questions and cutoff
ProcItems == [id : ItemIds, desc : {<<"o", "k">>}, marker : {S_SCORE_MARKER},
              score : ItemScores]
ProcFields == {<< >>, <<[key |-> K_TITLE, value |-> V_JaneDoe]>>, <<[key |-> K_YEAR, value |-> V_2023]>>}
ExcludingLists == {<< >>, <<QE1>>, <<QE2>>, <<QE1, QE2>>, <<QE2, QE1>>}
CutoffScores == {0, 100, 150}

(***************************************************************************)
(* SpecProc: process_response applied to one pasted response.  The initial *)
(* state is the one the statements of __init__ describe: the cutoff and    *)
(* the excluding questions read from the configuration, and the workbook   *)
(* of _ensure_excel_file_exists.  (__init__ hands ExcelDataParser a second *)
(* argument that its constructor does not take.)                           *)
(***************************************************************************)
InitProc ==
    /\ qa_items \in SeqsUpTo(ProcItems, MaxItems)
    /\ de_fields \in ProcFields
    /\ layout \in [sep : {<<" ">>}, qa_marked : BOOLEAN, de_wrap : {"marked"}]
    /\ response = RenderQa(qa_items, layout.sep, layout.qa_marked)
                  \o (IF de_fields = << >> THEN << >>
                      ELSE layout.sep \o RenderDe(de_fields, layout.sep, layout.de_wrap))
    /\ pc = "start"
    /\ qa_out = NoOutcome
    /\ de_out = NoOutcome
    /\ excluding_questions \in ExcludingLists
    /\ cutoff_score \in CutoffScores
    /\ workbook = EnsureExcelFileExists
    /\ result = InitialResult
    /\ IdleRun
    /\ IdleOthers

\* what one call extracted: the two maps, the total, the decision
Extraction(out) ==
    [qa_data |-> out.qa_data, de_data |-> out.de_data, score |-> out.result.score,
     rejected |-> out.result.rejected, reason |-> out.result.reason]

\* process_response(response), whatever the control point
CallProcessResponse ==
    /\ \E de_data \in {GetDataExtractionText(response)} :
       \E qa \in {GetQualityAssessmentText(response)} :
       \E out \in {ProcessParsed(de_data, qa, excluding_questions, cutoff_score,
                                 workbook, clock)} :
          /\ result' = out.result
          /\ workbook' = out.workbook
          /\ qa_out' = qa
          /\ de_out' = [raised |-> FALSE, map |-> de_data]
          /\ calls' = Append(calls, Extraction(out))
    /\ UNCHANGED <<inputVars, configVars, runVars, clock, promptVars, storeVars, sideVars>>

ProcessResponse ==
    /\ pc = "start"
    /\ CallProcessResponse
    /\ pc' = "processed"

SpecProc == InitProc /\ [][ProcessResponse]_vars

(***************************************************************************)
(* SpecRepeat: process_response applied to the same pasted response more   *)
(* than once, while the clock goes on.                                     *)
(***************************************************************************)
MaxCalls == 2
MaxClock == 1
RepeatFields == {<< >>, <<[key |-> K_TITLE, value |-> V_JaneDoe]>>,
                 <<[key |-> K_YEAR, value |-> V_2023]>>}

InitRepeat ==
    /\ qa_items \in SeqsUpTo(ProcItems, 1)
    /\ de_fields \in RepeatFields
    /\ layout \in [sep : {<<" ">>}, qa_marked : {TRUE}, de_wrap : {"marked"}]
    /\ response = RenderQa(qa_items, layout.sep, layout.qa_marked)
                  \o (IF de_fields = << >> THEN << >>
                      ELSE layout.sep \o RenderDe(de_fields, layout.sep, layout.de_wrap))
    /\ pc = "start"
    /\ qa_out = NoOutcome
    /\ de_out = NoOutcome
    /\ excluding_questions \in {<< >>, <<QE1>>}
    /\ cutoff_score \in CutoffScores
    /\ workbook = EnsureExcelFileExists
    /\ result = InitialResult
    /\ IdleRun
    /\ IdleOthers

\* a second passes
Tick ==
    /\ clock < MaxClock
    /\ clock' = clock + 1
    /\ UNCHANGED <<inputVars, pc, qa_out, de_out, configVars, workbook, result,
                   runVars, calls, promptVars, storeVars, sideVars>>

\* process_response(response) once more
ProcessResponseAgain ==
    /\ pc = "processed"
    /\ Len(calls) < MaxCalls
    /\ CallProcessResponse
    /\ pc' = "processed"

NextRepeat == ProcessResponse \/ Tick \/ ProcessResponseAgain
SpecRepeat == InitRepeat /\ [][NextRepeat]_vars

(***************************************************************************)
(* SpecMarkers: get_quality_assessment_text applied to responses that      *)
(* carry both quality markers, one of them, or none, with an item written  *)
(* before the block or not.                                                *)
(***************************************************************************)
QE3 == <<"Q", "E", "3">>
MarkerLayouts == {"both", "start", "end", "none"}
MarkerItems == [id : ItemIds, desc : {<<"o", "k">>}, marker : ItemMarkers,
                score : {<<"1", ".", "0">>, <<"0">>}]
OutsideItem == [id |-> QE3, desc |-> <<"o", "u", "t">>, marker |-> S_SCORE_MARKER,
                score |-> <<"1", ".", "0">>]

RenderMarkers(items, sep, markers, outside) ==
    LET body == Concat([k \in 1..Len(items) |-> RenderItem(items[k], sep)])
    IN  (IF outside THEN RenderItem(OutsideItem, sep) ELSE << >>)
        \o (IF markers \in {"both", "start"} THEN <<QA_START>> \o sep ELSE << >>)
        \o body
        \o (IF markers \in {"both", "end"} THEN <<QA_END>> ELSE << >>)

InitMarkers ==
    /\ qa_items \in SeqsUpTo(MarkerItems, MaxItems)
    /\ de_fields = << >>
    /\ layout \in [sep : {<<" ">>}, qa_marked : {FALSE}, de_wrap : {"bare"},
                   markers : MarkerLayouts, outside : BOOLEAN]
    /\ response = RenderMarkers(qa_items, layout.sep, layout.markers, layout.outside)
    /\ pc = "start"
    /\ qa_out = NoOutcome
    /\ de_out = NoOutcome
    /\ IdleProcessor
    /\ IdleRun
    /\ IdleOthers

SpecMarkers == InitMarkers /\ [][CallGetQualityAssessmentText]_vars

(***************************************************************************)
(* SpecLegacy: get_quality_assessment_text applied to responses without    *)
(* markers, written in one of the legacy styles: the id followed by ':',   *)
(* '.' or nothing, and the scoring marker `QEn Score`, `QEnScore` or       *)
(* `QEn_SCORE` followed by ':', '.' or nothing.                            *)
(***************************************************************************)
LegacyStyles == [idsep : {<<":">>, <<".">>, << >>},
                 marker : {S_SpaceScore, S_Score, S_SCORE},
                 msep : {<<":">>, <<".">>, << >>}]
LegacyItems == [id : ItemIds, desc : {<<"t", "e", "x", "t">>}, score : ValidScores]

\* `QEn<idsep> description<sep>QEn<marker><msep> <score><sep>`
RenderLegacyItem(it, style, sep) ==
    it.id \o style.idsep \o <<" ">> \o it.desc \o sep
    \o it.id \o style.marker \o style.msep \o <<" ">> \o it.score \o sep

RenderLegacy(items, style, sep) ==
    Concat([k \in 1..Len(items) |-> RenderLegacyItem(items[k], style, sep)])

InitLegacy ==
    /\ qa_items \in SeqsUpTo(LegacyItems, MaxItems)
    /\ de_fields = << >>
    /\ layout \in [sep : Separators, qa_marked : {FALSE}, de_wrap : {"bare"},
                   style : LegacyStyles]
    /\ response = RenderLegacy(qa_items, layout.style, layout.sep)
    /\ pc = "start"
    /\ qa_out = NoOutcome
    /\ de_out = NoOutcome
    /\ IdleProcessor
    /\ IdleRun
    /\ IdleOthers

SpecLegacy == InitLegacy /\ [][CallGetQualityAssessmentText]_vars

(***************************************************************************)
(* SpecTier2: get_quality_assessment_text applied to marked blocks whose   *)
(* scores follow `QEn_SCORE:` directly and may carry a sign, so that the   *)
(* tier 1 pattern, which wants a digit or a point there, can fail.         *)
(***************************************************************************)
SignedScores == {<<"+", "1">>, <<"-", "0", ".", "5">>, <<"+", "0">>, <<"1", ".", "0">>}
Tier2Items == [id : ItemIds, desc : {<<"o", "k">>}, score : SignedScores]

\* `QEn: description<sep>QEn_SCORE:<score><sep>`
RenderTier2Item(it, sep) ==
    it.id \o <<":", " ">> \o it.desc \o sep \o it.id \o S_SCORE_COLON \o it.score \o sep

RenderTier2(items, sep) ==
    <<QA_START>> \o sep
    \o Concat([k \in 1..Len(items) |-> RenderTier2Item(items[k], sep)])
    \o <<QA_END>>

InitTier2 ==
    /\ qa_items \in SeqsUpTo(Tier2Items, MaxItems)
    /\ de_fields = << >>
    /\ layout \in [sep : Separators, qa_marked : {TRUE}, de_wrap : {"bare"}]
    /\ response = RenderTier2(qa_items, layout.sep)
    /\ pc = "start"
    /\ qa_out = NoOutcome
    /\ de_out = NoOutcome
    /\ IdleProcessor
    /\ IdleRun
    /\ IdleOthers

SpecTier2 == InitTier2 /\ [][CallGetQualityAssessmentText]_vars

(***************************************************************************)
(* The configuration getters and get_analysis_prompt.  A document is the   *)
(* file as it is on disk: empty, not parseable, a bare number, or a        *)
(* mapping from section names to values.  Ids, keys and texts are single   *)
(* strings here, numbers are hundredths.  A prompt is the sequence of its  *)
(* lines, a line the sequence of the pieces it is concatenated from.       *)
(***************************************************************************)
K_Questions == "quality_assessment_questions"
K_Fields == "data_extraction_fields"
K_Excluding == "excluding_questions"
K_Cutoff == "cutoff_score"

\* load_yaml_file: safe_load gives None for an empty file; a YAMLError is
\* caught and gives None as well
LoadYamlFile(doc) ==
    IF doc.kind \in {"empty", "malformed"} THEN [kind |-> "none"] ELSE doc

\* `not data`
Falsy(data) ==
    \/ data.kind = "none"
    \/ data.kind = "mapping" /\ DOMAIN data.map = {}
    \/ data.kind = "number" /\ data.n = 0

Returned(v) == [raised |-> FALSE, value |-> v]
Raised == [raised |-> TRUE, value |-> << >>]

\* the guard the three list getters share, then the section under key:
\* `key in data` raises on a number
Section(doc, key) ==
    LET data == LoadYamlFile(doc)
    IN  IF Falsy(data) THEN [raised |-> FALSE, has |-> FALSE]
        ELSE IF data.kind # "mapping" THEN [raised |-> TRUE, has |-> FALSE]
        ELSE [raised |-> FALSE, has |-> key \in DOMAIN data.map]

\* the list comprehension: q["id"], q["question"], q["scores"] of every entry
GetAllQualityAssessmentFields(doc) ==
    LET sec == Section(doc, K_Questions)
        qs == doc.map[K_Questions]
    IN  IF sec.raised THEN Raised
        ELSE IF ~sec.has THEN Returned(<< >>)
        ELSE IF \E k \in 1..Len(qs) : ~({"id", "question", "scores"} \subseteq DOMAIN qs[k])
        THEN Raised
        ELSE Returned([k \in 1..Len(qs) |->
                         [id |-> qs[k].id, question |-> qs[k].question,
                          scores |-> qs[k].scores]])

GetAllDataExtractionFields(doc) ==
    LET sec == Section(doc, K_Fields)
        fs == doc.map[K_Fields]
    IN  IF sec.raised THEN Raised
        ELSE IF ~sec.has THEN Returned(<< >>)
        ELSE IF \E k \in 1..Len(fs) : ~({"key", "description"} \subseteq DOMAIN fs[k])
        THEN Raised
        ELSE Returned([k \in 1..Len(fs) |->
                         [key |-> fs[k].key, description |-> fs[k].description]])

GetAllExcludingQuestions(doc) ==
    LET sec == Section(doc, K_Excluding)
    IN  IF sec.raised THEN Raised
        ELSE IF ~sec.has THEN Returned(<< >>)
        ELSE Returned(doc.map[K_Excluding])

\* data.get("cutoff_score", 0), with no guard on data
GetCutoffScore(doc) ==
    LET data == LoadYamlFile(doc)
    IN  IF data.kind # "mapping" THEN Raised
        ELSE IF K_Cutoff \in DOMAIN data.map THEN Returned(data.map[K_Cutoff])
        ELSE Returned(0)

\* str() of a number of the configuration
PyStr(n) ==
    CASE n = 0 -> "0"
      [] n = 50 -> "0.5"
      [] n = 100 -> "1"
      [] n = 150 -> "1.5"
      [] n = 200 -> "2"
      [] OTHER -> "?"

\* ', '.join(map(str, scores)), as pieces
RECURSIVE JoinScores(_)
JoinScores(scores) ==
    IF scores = << >> THEN << >>
    ELSE IF Len(scores) = 1 THEN <<PyStr(scores[1])>>
    ELSE <<PyStr(scores[1]), ", ">> \o JoinScores(Tail(scores))

QaLine(qa) ==
    <<"* ", qa.id, ": ", qa.question, " (Possible scores: ">> \o JoinScores(qa.scores) \o <<")">>
DeLine(de) == <<"* ", de.key, ": ", de.description>>
Blank == << >>
QaExampleLines ==
    << <<"==QUALITY_ASSESSMENT_START==">>,
       <<"QE1", ": [", "Your brief description here", "]">>,
       <<"QE1", "_SCORE: [", "score", "]">>,
       Blank,
       <<"QE2", ": [", "Your brief description here", "]">>,
       <<"QE2", "_SCORE: [", "score", "]">>,
       <<"==QUALITY_ASSESSMENT_END==">>,
       Blank >>
DeExampleLines ==
    << <<"==DATA_EXTRACTION_START==">>,
       <<"AUTHOR", ": [", "author names", "]">>,
       <<"YEAR", ": [", "publication year", "]">>,
       <<"TITLE", ": [", "paper title", "]">>,
       <<"==DATA_EXTRACTION_END==">>,
       Blank >>
RuleLines ==
    << <<"IMPORTANT INSTRUCTIONS:">>,
       <<"1. Use EXACTLY the section markers shown above (==SECTION_START== and ==SECTION_END==)">>,
       <<"2. For quality assessment items, use the exact format 'QE1: [text]' followed by a line break and 'QE1_SCORE: [number]'">>,
       <<"3. For data extraction fields, use the exact keys I've listed, in ALL CAPS followed by a colon">>,
       <<"4. If information is not available, write 'Not Specified (N/S)'">>,
       <<"5. Do not add any additional formatting, bullets, or markdown">>,
       <<"6. Each item should be on its own line">>,
       <<"7. You should respect the line breaks here and replicate them if they exist">> >>

\* the prompt from the two lists and the cutoff
PromptLines(qa_fields, fields, cutoff) ==
    << <<"Hello, I need you to analyze the PDF document I've uploaded. Please follow these instructions precisely:">>,
       Blank,
       <<"===== PART 1: QUALITY ASSESSMENT =====">> >>
    \o [k \in 1..Len(qa_fields) |-> QaLine(qa_fields[k])]
    \o << Blank, <<"===== PART 2: DATA EXTRACTION =====">> >>
    \o [k \in 1..Len(fields) |-> DeLine(fields[k])]
    \o << Blank,
          <<"Minimum acceptance score: ", PyStr(cutoff)>>,
          Blank,
          <<"===== OUTPUT FORMAT INSTRUCTIONS =====">>,
          <<"For Quality Assessment, follow this exact format with no deviations:">>,
          Blank >>
    \o QaExampleLines
    \o << <<"For Data Extraction, follow this exact format with no deviations:">>, Blank >>
    \o DeExampleLines
    \o RuleLines

\* get_analysis_prompt: the three getters are called first, then the test
\* for an empty list; the empty prompt is the one without a line
GetAnalysisPrompt(doc) ==
    LET qa_fields == GetAllQualityAssessmentFields(doc)
        fields == GetAllDataExtractionFields(doc)
        cutoff == GetCutoffScore(doc)
    IN  IF qa_fields.raised \/ fields.raised \/ cutoff.raised THEN Raised
        ELSE IF qa_fields.value = << >> \/ fields.value = << >> THEN Returned(<< >>)
        ELSE Returned(PromptLines(qa_fields.value, fields.value, cutoff.value))

(***************************************************************************)
(* SpecConfig: the getters called, in any order, on one document.          *)
(***************************************************************************)
Q1 == [id |-> "QE1", question |-> "Is the method described?", scores |-> <<0, 50, 100>>]
Q2 == [id |-> "QE2", question |-> "Is it a review?", scores |-> <<0, 100>>]
Q3 == [id |-> "QE3", question |-> "Is there a prototype?", scores |-> <<100>>]
\* an entry written without its scores
Q1NoScores == [id |-> "QE1", question |-> "Is the method described?"]
F_AUTHOR == [key |-> "AUTHOR", description |-> "Names of the authors"]
F_YEAR == [key |-> "YEAR", description |-> "Year of publication"]
F_TITLE == [key |-> "TITLE", description |-> "Title of the paper"]
F_PUBLISHER == [key |-> "PUBLISHER", description |-> "Publisher"]

QuestionLists == {<< >>, <<Q1>>, <<Q1, Q2>>, <<Q2, Q1>>, <<Q1, Q2, Q3>>, <<Q1NoScores>>}
FieldLists == {<< >>, <<F_AUTHOR, F_YEAR, F_TITLE>>, <<F_PUBLISHER>>, <<F_TITLE, F_PUBLISHER>>}
ConfigExcluding == {<< >>, <<"QE1">>}
ConfigCutoffs == {0, 150}

\* a section of a mapping: there with a value, or not there
Absent(v) == [has |-> FALSE, v |-> v]
Options(values, v) == {Absent(v)} \cup {[has |-> TRUE, v |-> x] : x \in values}
MakeMapping(q, f, e, c) ==
    LET secs == {k \in {K_Questions, K_Fields, K_Excluding, K_Cutoff} :
                    \/ k = K_Questions /\ q.has
                    \/ k = K_Fields /\ f.has
                    \/ k = K_Excluding /\ e.has
                    \/ k = K_Cutoff /\ c.has}
    IN  [k \in secs |-> CASE k = K_Questions -> q.v
                          [] k = K_Fields -> f.v
                          [] k = K_Excluding -> e.v
                          [] OTHER -> c.v]
Mappings ==
    {MakeMapping(q, f, e, c) : q \in Options(QuestionLists, << >>),
                               f \in Options(FieldLists, << >>),
                               e \in Options(ConfigExcluding, << >>),
                               c \in Options(ConfigCutoffs, 0)}
Documents ==
    {[kind |-> "empty"], [kind |-> "malformed"], [kind |-> "number", n |-> 42]}
    \cup {[kind |-> "mapping", map |-> m] : m \in Mappings}

Getters == {"get_all_quality_assessment_fields", "get_all_data_extraction_fields",
            "get_all_excluding_questions", "get_cutoff_score", "get_analysis_prompt"}

InitConfig ==
    /\ qa_items = << >>
    /\ de_fields = << >>
    /\ layout = [sep |-> <<" ">>, qa_marked |-> TRUE, de_wrap |-> "marked"]
    /\ response = << >>
    /\ pc = "config"
    /\ qa_out = NoOutcome
    /\ de_out = NoOutcome
    /\ IdleProcessor
    /\ IdleRun
    /\ clock = 0
    /\ calls = << >>
    /\ document \in Documents
    /\ config_out = << >>
    /\ IdleStore
    /\ IdleSide

\* one getter is called and its outcome kept
CallGetter(name, outcome) ==
    /\ pc = "config"
    /\ name \notin DOMAIN config_out
    /\ config_out' = Put(config_out, name, outcome)
    /\ UNCHANGED <<inputVars, pc, qa_out, de_out, configVars, workbook, result,
                   runVars, clockVars, document, storeVars, sideVars>>

CallGetAllQualityAssessmentFields ==
    CallGetter("get_all_quality_assessment_fields", GetAllQualityAssessmentFields(document))
CallGetAllDataExtractionFields ==
    CallGetter("get_all_data_extraction_fields", GetAllDataExtractionFields(document))
CallGetAllExcludingQuestions ==
    CallGetter("get_all_excluding_questions", GetAllExcludingQuestions(document))
CallGetCutoffScore ==
    CallGetter("get_cutoff_score", GetCutoffScore(document))
CallGetAnalysisPrompt ==
    CallGetter("get_analysis_prompt", GetAnalysisPrompt(document))

NextConfig ==
    \/ CallGetAllQualityAssessmentFields
    \/ CallGetAllDataExtractionFields
    \/ CallGetAllExcludingQuestions
    \/ CallGetCutoffScore
    \/ CallGetAnalysisPrompt
SpecConfig == InitConfig /\ [][NextConfig]_vars

(***************************************************************************)
(* PDFToExcelProcessor.run (pdf_to_excel.py).  The folder holds PDFs; each *)
(* is sent to the model once, and the answer, or none, decides where the   *)
(* file goes.  Log and debug files are not part of the state.              *)
(***************************************************************************)
MaxPdfs == 2
\* max_questions, the constructor's argument
MaxQuestions == 1

S_AverageScore == <<"A", "v", "e", "r", "a", "g", "e", " ", "S", "c", "o", "r", "e">>

NoResponse == [has |-> FALSE, text |-> << >>]
NewPdf == [folder |-> "inbox", visited |-> FALSE, response |-> NoResponse, moves |-> << >>]

\* the answers the model may give: none, or a quality block of these items
\* followed by a data block with a title
RunItem(id, score, marker) == [id |-> id, desc |-> <<"o", "k">>, marker |-> marker, score |-> score]
RunAnswers ==
    {[items |-> << >>, marked |-> TRUE],
     [items |-> <<RunItem(QE1, <<"1", ".", "0">>, S_SCORE_MARKER)>>, marked |-> TRUE],
     [items |-> <<RunItem(QE1, <<"0">>, S_SCORE_MARKER)>>, marked |-> TRUE],
     [items |-> <<RunItem(QE1, <<"1", ".", "0">>, S_SCORE_MARKER),
                  RunItem(QE2, <<"0", ".", "5">>, S_SCORE_MARKER)>>, marked |-> TRUE],
     [items |-> <<RunItem(QE1, <<"0">>, S_SCORE_MARKER),
                  RunItem(QE2, <<"0">>, S_SCORE_MARKER)>>, marked |-> TRUE],
     [items |-> <<RunItem(QE1, <<"1", ".", "2", ".", "3">>, <<" ", "S", "c", "o", "r", "e", ":", " ">>)>>,
      marked |-> FALSE]}
RenderAnswer(a) ==
    RenderQa(a.items, <<" ">>, a.marked) \o <<" ">>
    \o RenderDe(<<[key |-> K_TITLE, value |-> V_JaneDoe]>>, <<" ">>, "marked")
RunResponses == {NoResponse} \cup {[has |-> TRUE, text |-> RenderAnswer(a)] : a \in RunAnswers}

\* a string of the configuration as the sequence of its characters
IdChars(s) ==
    CASE s = "QE1" -> QE1
      [] s = "QE2" -> QE2
      [] s = "TITLE" -> K_TITLE
      [] s = "YEAR" -> K_YEAR
      [] s = "DOF OF ARM" -> K_DOF
      [] OTHER -> << >>
IdText(id) == CHOOSE s \in {"QE1", "QE2", "TITLE", "YEAR", "DOF OF ARM"} : IdChars(s) = id

F_DOF == [key |-> "DOF OF ARM", description |-> "Degrees of freedom"]
\* the configuration file of a processor that was constructed with the
\* given sections: the two lists, or none, and what __init__ read from it
RunDocument(q, f, excluding, cutoff) ==
    [kind |-> "mapping",
     map |-> MakeMapping(q, f,
                         [has |-> TRUE, v |-> [k \in 1..Len(excluding) |-> IdText(excluding[k])]],
                         [has |-> TRUE, v |-> cutoff])]
Present(v) == [has |-> TRUE, v |-> v]
DeclaredDocument(excluding, cutoff) ==
    RunDocument(Present(<<Q1, Q2>>), Present(<<F_TITLE, F_YEAR, F_DOF>>), excluding, cutoff)

\* the sheets run creates: create_excel_file writes a fresh workbook, then
\* the two templates are applied with the ids and keys __init__ loaded
RunTemplates(doc) ==
    LET qa_fields == GetAllQualityAssessmentFields(doc).value
        fields == GetAllDataExtractionFields(doc).value
    IN  ApplyExcelTemplate(
            ApplyExcelTemplate(<< >>, "qa_sheet",
                               [k \in 1..Len(qa_fields) |-> IdChars(qa_fields[k].id)]
                               \o <<S_AverageScore>>),
            "de_sheet", [k \in 1..Len(fields) |-> IdChars(fields[k].key)])

\* qa_data.get(f"{e_question} Score", 1) == 0, counted over the excluding questions
CheckEQuestion(qa_data, questions) ==
    Cardinality({i \in 1..Len(questions) :
        LET v == Get(qa_data, questions[i] \o S_SpaceScore, Num(1))
        IN  IsNum(v) /\ v.n = 0})

\* the file of one turn of the loop: where it is and the moves made of it
InboxFile == [folder |-> "inbox", moves |-> << >>]

\* shutil.move(file_path, folder) inside move_analysed_file and
\* move_rejected_file: the file is moved when it is still at file_path; else
\* the call raises, and the exception is caught and logged in the method
MoveFile(f, dest) ==
    IF f.folder = "inbox" THEN [folder |-> dest, moves |-> Append(f.moves, dest)] ELSE f

\* move_rejected_file called once for each excluding question counted
RECURSIVE MoveRejectedTimes(_, _)
MoveRejectedTimes(f, n) ==
    IF n = 0 THEN f ELSE MoveRejectedTimes(MoveFile(f, "rejected"), n - 1)

\* the body of the loop for one answered PDF, given the parsed quality
\* outcome and data map: the workbook it leaves, the folder the file ends in
\* and the moves made of it
RunParsed(qa, de_data, questions, cutoff, wb) ==
    IF qa.raised THEN [workbook |-> wb, folder |-> "inbox", moves |-> << >>]
    ELSE
    LET paper_score == Get(qa.map, S_Total_Score, Num(0)).n
        qa_data == Remove(qa.map, S_Total_Score)
        wb_qa == IF qa_data # EmptyMap
                 THEN FillExcelWithData(wb, "qa_sheet", Put(qa_data, S_Total_Score, Num(paper_score)))
                 ELSE wb
        excluded == MoveRejectedTimes(InboxFile, CheckEQuestion(qa_data, questions))
        analysed == MoveFile(InboxFile, "analysed")
        rejected == MoveFile(InboxFile, "rejected")
    IN  IF CheckEQuestion(qa_data, questions) # 0
        THEN [workbook |-> wb_qa, folder |-> excluded.folder, moves |-> excluded.moves]
        ELSE IF paper_score # 0 /\ paper_score >= cutoff
        THEN [workbook |-> IF de_data # EmptyMap
                           THEN FillExcelWithData(wb_qa, "de_sheet", AsCells(de_data))
                           ELSE wb_qa,
              folder |-> analysed.folder, moves |-> analysed.moves]
        ELSE [workbook |-> wb_qa, folder |-> rejected.folder, moves |-> rejected.moves]

\* a faulty body: a PDF without an answer is moved to the rejected folder
RunPdfBodyRejectsUnanswered(pdf_response, questions, cutoff, wb) ==
    IF ~pdf_response.has
    THEN [workbook |-> wb, folder |-> "rejected", moves |-> <<"rejected">>]
    ELSE RunParsed(GetQualityAssessmentText(pdf_response.text),
                   GetDataExtractionText(pdf_response.text), questions, cutoff, wb)

\* the body of the loop for one PDF, from the answer on; without an answer
\* the file is left where it is
RunPdfBody(pdf_response, questions, cutoff, wb) ==
    IF ~pdf_response.has THEN [workbook |-> wb, folder |-> "inbox", moves |-> << >>]
    ELSE RunParsed(GetQualityAssessmentText(pdf_response.text),
                   GetDataExtractionText(pdf_response.text), questions, cutoff, wb)

InitRun ==
    /\ qa_items = << >>
    /\ de_fields = << >>
    /\ layout = [sep |-> <<" ">>, qa_marked |-> TRUE, de_wrap |-> "marked"]
    /\ response = << >>
    /\ pc = "run_start"
    /\ qa_out = NoOutcome
    /\ de_out = NoOutcome
    /\ excluding_questions \in ExcludingLists
    /\ cutoff_score \in CutoffScores
    /\ workbook = << >>
    /\ result = InitialResult
    /\ pdf_files \in {[i \in 1..n |-> NewPdf] : n \in 1..MaxPdfs}
    /\ num_question = 0
    /\ requests = << >>
    /\ clock = 0
    /\ calls = << >>
    /\ document = DeclaredDocument(excluding_questions, cutoff_score)
    /\ config_out = << >>
    /\ IdleStore
    /\ IdleSide

\* run up to the loop, with Ollama reachable
RunStart ==
    /\ pc = "run_start"
    /\ workbook' = RunTemplates(document)
    /\ num_question' = 0
    /\ pc' = "run_loop"
    /\ UNCHANGED <<inputVars, qa_out, de_out, configVars, result, pdf_files, requests,
                   otherVars>>

\* run with Ollama unreachable: the sheets are created and run returns False
RunNoConnection ==
    /\ pc = "run_start"
    /\ workbook' = RunTemplates(document)
    /\ pc' = "run_failed"
    /\ UNCHANGED <<inputVars, qa_out, de_out, configVars, result, runVars, otherVars>>

\* send_pdf_to_analysis(pdf_path, prompt) with the answer r of the model: a
\* PDF without extractable text returns None before anything is sent; else
\* send_prompt posts the content with the prompt, whatever the prompt
SendPdfToAnalysis(readable, prompt, r, sent) ==
    IF ~readable THEN [response |-> NoResponse, requests |-> sent]
    ELSE [response |-> r, requests |-> Append(sent, prompt)]

\* one turn of the loop: the prompt is built, the next PDF is sent with it
\* and its answer handled; an exception ends the turn
RunProcessPdf ==
    /\ pc = "run_loop"
    /\ \E i \in 1..Len(pdf_files) :
          /\ ~pdf_files[i].visited
          /\ \A j \in 1..(i - 1) : pdf_files[j].visited
          /\ \E prompt \in {GetAnalysisPrompt(document)} :
                IF prompt.raised
                THEN /\ pdf_files' = [pdf_files EXCEPT ![i].visited = TRUE]
                     /\ num_question' = (IF num_question = MaxQuestions THEN 0 ELSE num_question)
                     /\ UNCHANGED <<workbook, response, requests>>
                ELSE \E readable \in BOOLEAN :
                     \E r \in RunResponses :
                     \E sent \in {SendPdfToAnalysis(readable, prompt.value, r, requests)} :
                     \E out \in {RunPdfBody(sent.response, excluding_questions, cutoff_score,
                                            workbook)} :
                        /\ workbook' = out.workbook
                        /\ pdf_files' = [pdf_files EXCEPT
                                            ![i] = [folder |-> out.folder, visited |-> TRUE,
                                                    response |-> sent.response,
                                                    moves |-> out.moves]]
                        /\ response' = sent.response.text
                        /\ requests' = sent.requests
                        /\ num_question' =
                              (IF num_question = MaxQuestions THEN 0 ELSE num_question) + 1
    /\ UNCHANGED <<qa_items, de_fields, layout, pc, qa_out, de_out, configVars, result,
                   otherVars>>

\* the loop is over: run returns True
RunFinish ==
    /\ pc = "run_loop"
    /\ \A i \in 1..Len(pdf_files) : pdf_files[i].visited
    /\ pc' = "run_done"
    /\ UNCHANGED <<inputVars, qa_out, de_out, configVars, workbook, result, runVars, otherVars>>

NextRun == RunStart \/ RunNoConnection \/ RunProcessPdf \/ RunFinish

SpecRun == InitRun /\ [][NextRun]_vars

(***************************************************************************)
(* SpecRunPrompt: run by a processor whose configuration holds both lists, *)
(* one of them, or the field list empty.                                   *)
(***************************************************************************)
PromptQuestionLists == {Absent(<< >>), Present(<<Q1, Q2>>)}
PromptFieldLists == {Absent(<< >>), Present(<< >>), Present(<<F_TITLE, F_YEAR>>)}

InitRunPrompt ==
    /\ qa_items = << >>
    /\ de_fields = << >>
    /\ layout = [sep |-> <<" ">>, qa_marked |-> TRUE, de_wrap |-> "marked"]
    /\ response = << >>
    /\ pc = "run_start"
    /\ qa_out = NoOutcome
    /\ de_out = NoOutcome
    /\ excluding_questions \in {<< >>, <<QE1>>}
    /\ cutoff_score \in {0, 100}
    /\ workbook = << >>
    /\ result = InitialResult
    /\ pdf_files \in {[i \in 1..n |-> NewPdf] : n \in 1..MaxPdfs}
    /\ num_question = 0
    /\ requests = << >>
    /\ clock = 0
    /\ calls = << >>
    /\ \E q \in PromptQuestionLists : \E f \in PromptFieldLists :
          document = RunDocument(q, f, excluding_questions, cutoff_score)
    /\ config_out = << >>
    /\ IdleStore
    /\ IdleSide

SpecRunPrompt == InitRunPrompt /\ [][NextRun]_vars

(***************************************************************************)
(* ExcelDataParser as a whole: the file on disk, the methods with their    *)
(* recovery paths.  The sheet Info of a fresh workbook holds no data and   *)
(* is left out.  A save may fail (save_ok = FALSE).                        *)
(***************************************************************************)
\* create_excel_file: a fresh workbook is saved over full_excel_path
CreatedWorkbook == << >>

\* _ensure_valid_workbook: the workbook that loads; a file that is missing
\* or does not load is replaced by a fresh one (a corrupted file is moved
\* away first)
EnsureValidWorkbook(f, wb) == IF f = "valid" THEN wb ELSE CreatedWorkbook

\* apply_excel_template with its recovery: when the save raises, the file
\* is removed and the method calls itself, on a fresh workbook then
ApplyExcelTemplateRecovering(f, wb, sheet_name, identifiers, save_ok) ==
    IF save_ok THEN ApplyExcelTemplate(EnsureValidWorkbook(f, wb), sheet_name, identifiers)
    ELSE ApplyExcelTemplate(EnsureValidWorkbook("missing", wb), sheet_name, identifiers)

\* the headers fill_excel_with_data gives a quality sheet that is missing
QaDefaultHeaders ==
    <<S_Title>> \o [i \in 1..8 |-> S_QE \o <<DigitChar(i)>>]
    \o [i \in 1..8 |-> S_QE \o <<DigitChar(i)>> \o S_SCORE] \o <<S_TOTAL_SCORE>>

\* data as a dict: entries is the sequence of its items, in insertion order
AsDict(entries) ==
    [k \in {entries[i].key : i \in 1..Len(entries)} |->
        LET i == CHOOSE j \in 1..Len(entries) : entries[j].key = k IN entries[i].value]
Keys(entries) == [i \in 1..Len(entries) |-> entries[i].key]

\* fill_excel_with_data(sheet_name, data): the workbook on disk afterwards
\* and the value returned.  A missing sheet gets headers first (from the
\* fixed list, or from the keys of data), an unknown sheet name gives False,
\* as does a sheet without headers; when the save raises, the workbook goes
\* to a recovery file, the file itself keeps what it had, True is returned
FillExcelWithDataRecovering(f, wb, sheet_name, entries, save_ok) ==
    LET loaded == EnsureValidWorkbook(f, wb)
        known == sheet_name \in {"qa_sheet", "de_sheet"}
        with_sheet ==
            IF sheet_name \in DOMAIN loaded THEN loaded
            ELSE IF sheet_name = "qa_sheet"
            THEN ApplyExcelTemplate(loaded, sheet_name, QaDefaultHeaders)
            ELSE IF sheet_name = "de_sheet"
            THEN ApplyExcelTemplate(loaded, sheet_name, Keys(entries))
            ELSE loaded
    IN  IF sheet_name \notin DOMAIN loaded /\ ~known THEN [workbook |-> loaded, ok |-> FALSE]
        ELSE IF with_sheet[sheet_name].headers = << >>
        THEN [workbook |-> with_sheet, ok |-> FALSE]
        ELSE IF save_ok
        THEN [workbook |-> FillExcelWithData(with_sheet, sheet_name, AsDict(entries)),
              ok |-> TRUE]
        ELSE [workbook |-> with_sheet, ok |-> TRUE]

\* get_existing_data(sheet_name): the rows as dicts, header -> cell
GetExistingData(f, wb, sheet_name) ==
    LET loaded == EnsureValidWorkbook(f, wb)
    IN  IF sheet_name \notin DOMAIN loaded THEN << >>
        ELSE IF loaded[sheet_name].headers = << >> THEN << >>
        ELSE loaded[sheet_name].rows

(***************************************************************************)
(* SpecExcel: the methods of one ExcelDataParser called in any order.      *)
(***************************************************************************)
MaxRows == 2
SheetNames == {"qa_sheet", "de_sheet", "notes"}
TemplateIdentifiers == {<<QE1>>, <<K_TITLE, K_YEAR>>}
Entry(k, v) == [key |-> k, value |-> v]
\* a quality row, a data row, a data row with a key the template lacks
DataDicts ==
    {<<Entry(S_TITLE, Str(V_JaneDoe)), Entry(QE1, Str(<<"o", "k">>)),
       Entry(QE1 \o S_SCORE, Num(100))>>,
     <<Entry(K_TITLE, Str(V_JaneDoe)), Entry(K_YEAR, Str(V_2023))>>,
     <<Entry(K_TITLE, Str(V_JaneDoe)), Entry(K_DOF, Str(<<"6">>))>>}

TotalRows(wb) ==
    LET RECURSIVE Sum(_)
        Sum(S) == IF S = {} THEN 0
                  ELSE LET x == CHOOSE y \in S : TRUE
                       IN  Len(wb[x].rows) + Sum(S \ {x})
    IN  Sum(DOMAIN wb)

InitExcel ==
    /\ qa_items = << >>
    /\ de_fields = << >>
    /\ layout = [sep |-> <<" ">>, qa_marked |-> TRUE, de_wrap |-> "marked"]
    /\ response = << >>
    /\ pc = "excel"
    /\ qa_out = NoOutcome
    /\ de_out = NoOutcome
    /\ IdleProcessor
    /\ IdleRun
    /\ clock = 0
    /\ calls = << >>
    /\ document = NoDocument
    /\ config_out = << >>
    /\ file \in {"missing", "valid"}
    /\ last_call = NoCall
    /\ IdleSide

excelUnchanged == <<inputVars, pc, qa_out, de_out, configVars, result, runVars,
                    clockVars, promptVars, sideVars>>

CreateExcelFile ==
    /\ pc = "excel"
    /\ file' = "valid"
    /\ workbook' = CreatedWorkbook
    /\ last_call' = [op |-> "create", sheet |-> "", data |-> EmptyMap, ok |-> TRUE,
                     saved |-> TRUE]
    /\ UNCHANGED excelUnchanged

CallApplyExcelTemplate ==
    /\ pc = "excel"
    /\ \E sheet_name \in SheetNames : \E identifiers \in TemplateIdentifiers :
       \E save_ok \in BOOLEAN :
          /\ workbook' = ApplyExcelTemplateRecovering(file, workbook, sheet_name,
                                                      identifiers, save_ok)
          /\ last_call' = [op |-> "template", sheet |-> sheet_name, data |-> EmptyMap,
                           ok |-> TRUE, saved |-> save_ok]
    /\ file' = "valid"
    /\ UNCHANGED excelUnchanged

CallFillExcelWithData ==
    /\ pc = "excel"
    /\ TotalRows(workbook) < MaxRows
    /\ \E sheet_name \in SheetNames : \E entries \in DataDicts : \E save_ok \in BOOLEAN :
       \E out \in {FillExcelWithDataRecovering(file, workbook, sheet_name, entries, save_ok)} :
          /\ workbook' = out.workbook
          /\ last_call' = [op |-> "fill", sheet |-> sheet_name, data |-> AsDict(entries),
                           ok |-> out.ok, saved |-> save_ok]
    /\ file' = "valid"
    /\ UNCHANGED excelUnchanged

CallGetExistingData ==
    /\ pc = "excel"
    /\ \E sheet_name \in SheetNames :
          last_call' = [op |-> "get", sheet |-> sheet_name, data |-> EmptyMap, ok |-> TRUE,
                        saved |-> FALSE]
    /\ workbook' = EnsureValidWorkbook(file, workbook)
    /\ file' = "valid"
    /\ UNCHANGED excelUnchanged

\* the environment: the file is damaged on disk and does not load any more
CorruptFile ==
    /\ pc = "excel"
    /\ file = "valid"
    /\ file' = "corrupted"
    /\ UNCHANGED <<excelUnchanged, workbook, last_call>>

NextExcel ==
    \/ CreateExcelFile
    \/ CallApplyExcelTemplate
    \/ CallFillExcelWithData
    \/ CallGetExistingData
    \/ CorruptFile
SpecExcel == InitExcel /\ [][NextExcel]_vars

(***************************************************************************)
(* SpecLegacyData: get_data_extraction_text applied to a response without  *)
(* markers, with a Data Extraction heading, lines in several shapes and,   *)
(* possibly, one of the end markers after some of the lines.               *)
(***************************************************************************)
\* plain `KEY: value`, bold `**KEY:** value`, quoted `"KEY": "value"`, and a
\* line without a colon `KEY value`
LineShapes == {"plain", "bold", "quoted", "nocolon"}
LegacyFields == [key : {K_TITLE, K_YEAR}, value : {V_JaneDoe, V_2023}, shape : LineShapes]

RenderLine(f) ==
    IF f.shape = "plain" THEN f.key \o <<":", " ">> \o f.value \o <<"\n">>
    ELSE IF f.shape = "bold"
    THEN <<"*", "*">> \o f.key \o <<":", "*", "*", " ">> \o f.value \o <<"\n">>
    ELSE IF f.shape = "quoted"
    THEN <<"\"">> \o f.key \o <<"\"", ":", " ", "\"">> \o f.value \o <<"\"", "\n">>
    ELSE f.key \o <<" ">> \o f.value \o <<"\n">>

\* marker = 0: no end marker; else end_markers[marker] stands on a line of its
\* own after the first `cut` lines
RenderLegacyData(fields, marker, cut) ==
    LET lines == [k \in 1..Len(fields) |-> RenderLine(fields[k])]
    IN  S_DataExtraction \o <<":", "\n">>
        \o (IF marker = 0 THEN Concat(lines)
            ELSE Concat(SubSeq(lines, 1, cut)) \o end_markers[marker] \o <<"\n">>
                 \o Concat(SubSeq(lines, cut + 1, Len(lines))))

InitLegacyData ==
    /\ qa_items = << >>
    /\ de_fields \in SeqsUpTo(LegacyFields, MaxFields)
    /\ layout \in [sep : {<<"\n">>}, qa_marked : {FALSE}, de_wrap : {"heading"},
                   marker : 0..Len(end_markers), cut : 0..MaxFields]
    /\ layout.cut <= Len(de_fields)
    /\ layout.marker = 0 => layout.cut = 0
    /\ response = RenderLegacyData(de_fields, layout.marker, layout.cut)
    /\ pc = "start"
    /\ qa_out = NoOutcome
    /\ de_out = NoOutcome
    /\ IdleProcessor
    /\ IdleRun
    /\ IdleOthers

SpecLegacyData == InitLegacyData /\ [][CallGetDataExtractionText]_vars

(***************************************************************************)
(* MissingFieldsFiller.extract_missing_fields (fill_missing_fields.py).    *)
(* paper_data is a row of the data sheet as get_existing_data reads it: a  *)
(* cell holds a text or None.                                              *)
(***************************************************************************)
S_RealTimeFeedbackControl ==
    <<"R", "E", "A", "L", "-", "T", "I", "M", "E", " ", "F", "E", "E", "D", "B", "A",
      "C", "K", " ", "&", " ", "C", "O", "N", "T", "R", "O", "L">>
S_RealTimeFeedback ==
    <<"R", "E", "A", "L", "-", "T", "I", "M", "E", " ", "F", "E", "E", "D", "B", "A",
      "C", "K">>
S_EfficiencyAccuracy ==
    <<"E", "F", "F", "I", "C", "I", "E", "N", "C", "Y", " ", "&", " ", "A", "C", "C",
      "U", "R", "A", "C", "Y">>
S_RealTimeMotionPlanning ==
    <<"R", "E", "A", "L", "-", "T", "I", "M", "E", " ", "&", " ", "M", "O", "T", "I",
      "O", "N", " ", "P", "L", "A", "N", "N", "I", "N", "G">>
S_HardwareSoftware ==
    <<"H", "A", "R", "D", "W", "A", "R", "E", " ", "&", " ", "S", "O", "F", "T", "W",
      "A", "R", "E">>
S_ChallengesLimitations ==
    <<"C", "H", "A", "L", "L", "E", "N", "G", "E", "S", " ", "&", " ", "L", "I", "M",
      "I", "T", "A", "T", "I", "O", "N", "S">>
special_field_names ==
    <<S_RealTimeFeedbackControl, S_RealTimeFeedback, S_EfficiencyAccuracy,
      S_RealTimeMotionPlanning, S_HardwareSoftware, S_ChallengesLimitations>>

\* the cell without a value, as one symbol
NoneCell == <<"None">>
\* bool(value) of a cell or of an extracted text
Truthy(v) == v # << >> /\ v # NoneCell

\* [A-Z\s&-]
IsSpecialKeyChar(c) == IsKeyChar(c) \/ c \in {"&", "-"}
RECURSIVE SkipSpecialKeyChars(_, _)
SkipSpecialKeyChars(s, i) ==
    IF i <= Len(s) /\ IsSpecialKeyChar(s[i]) THEN SkipSpecialKeyChars(s, i + 1) ELSE i

\* (?=\s+[A-Z][A-Z\s&-]+:|==DATA_EXTRACTION_END==|$)
SpecialLookahead(s, q) ==
    \/ AtEnd(s, q)
    \/ /\ q <= Len(s)
       /\ s[q] = DE_END
    \/ /\ q <= Len(s)
       /\ IsSpace(s[q])
       /\ LET a == SkipSpace(s, q)
              r == SkipSpecialKeyChars(s, a + 1)
          IN  /\ a <= Len(s)
              /\ IsUpper(s[a])
              /\ r > a + 1
              /\ r <= Len(s)
              /\ s[r] = ":"

\* the name, white space and a colon stand at i
SpecialAt(s, name, i) ==
    LET c == SkipSpace(s, i + Len(name))
    IN  /\ StartsWithAt(s, name, i)
        /\ c <= Len(s)
        /\ s[c] = ":"

\* pattern.search(response_content) for one special field: found, group(1)
SpecialSearch(s, name) ==
    LET starts == {i \in 1..Len(s) : SpecialAt(s, name, i)}
        i == Min(starts)
        v0 == SkipSpace(s, SkipSpace(s, i + Len(name)) + 1)
        q == Min({x \in v0..(Len(s) + 1) : SpecialLookahead(s, x)})
    IN  IF starts = {} THEN [found |-> FALSE, value |-> << >>]
        ELSE [found |-> TRUE, value |-> Slice(s, v0, q)]

\* the loop over special_field_names
RECURSIVE AddSpecialFields(_, _, _)
AddSpecialFields(all_de_data, response_content, names) ==
    IF names = << >> THEN all_de_data
    ELSE LET special_field == Head(names)
             match == SpecialSearch(response_content, special_field)
         IN  IF special_field \notin DOMAIN all_de_data /\ match.found
             THEN AddSpecialFields(Put(all_de_data, special_field, Strip(match.value)),
                                   response_content, Tail(names))
             ELSE AddSpecialFields(all_de_data, response_content, Tail(names))

\* a faulty loop: a field is written whatever the row holds for it
FillMissingOverwrites(updated_data0, all_de_data) ==
    LET filled == {f \in DOMAIN all_de_data : Truthy(all_de_data[f])}
    IN  [f \in (DOMAIN updated_data0) \cup filled |->
            IF f \in filled THEN all_de_data[f] ELSE updated_data0[f]]

\* the loop over all_de_data.items(): a field missing from the row, or empty
\* in it, takes the extracted value when that value is not empty
FillMissing(updated_data0, all_de_data) ==
    LET filled == {f \in DOMAIN all_de_data :
                     /\ f \notin DOMAIN updated_data0 \/ ~Truthy(updated_data0[f])
                     /\ Truthy(all_de_data[f])}
    IN  [f \in (DOMAIN updated_data0) \cup filled |->
            IF f \in filled THEN all_de_data[f] ELSE updated_data0[f]]

\* the body of the try block once the file is read; argument is the dict
\* behind paper_data when the call returns (the loop writes to a copy)
ExtractFromContent(paper, response_content) ==
    LET qa == GetQualityAssessmentText(response_content)
        all_de_data == AddSpecialFields(GetDataExtractionText(response_content),
                                        response_content, special_field_names)
    IN  IF qa.raised THEN [value |-> paper, argument |-> paper]
        ELSE [value |-> FillMissing(paper, all_de_data), argument |-> paper]

\* extract_missing_fields(paper_data, response_file)
ExtractMissingFields(paper, f) ==
    IF ~f.readable THEN [value |-> paper, argument |-> paper]
    ELSE ExtractFromContent(paper, f.content)

(***************************************************************************)
(* SpecFill: extract_missing_fields applied to one row and one response    *)
(* file: unreadable, or holding a marked data block, with or without a     *)
(* quality section on which the parser raises.                             *)
(***************************************************************************)
FillKeys == {K_TITLE, K_YEAR, S_HardwareSoftware}
FillFields == [key : FillKeys, value : {<< >>, V_2023}]
\* a row: each key is not a column, an empty cell, an empty text or a text
CellOptions == {<<"absent">>, NoneCell, << >>, V_JaneDoe}
Rows ==
    {[k \in {x \in FillKeys : c[x] # <<"absent">>} |-> c[k]] : c \in [FillKeys -> CellOptions]}

RaisingQuality ==
    RenderQa(<<[id |-> QE1, desc |-> <<"o", "k">>,
                marker |-> <<" ", "S", "c", "o", "r", "e", ":", " ">>,
                score |-> <<"1", ".", "2", ".", "3">>]>>, <<" ">>, FALSE)

InitFill ==
    /\ qa_items = << >>
    /\ de_fields \in SeqsUpTo(FillFields, MaxFields)
    /\ layout \in [sep : {<<" ">>}, qa_marked : {FALSE}, de_wrap : {"marked"}]
    /\ response = << >>
    /\ pc = "start"
    /\ qa_out = NoOutcome
    /\ de_out = NoOutcome
    /\ IdleProcessor
    /\ IdleRun
    /\ clock = 0
    /\ calls = << >>
    /\ document = NoDocument
    /\ config_out = << >>
    /\ IdleStore
    /\ paper_data \in Rows
    /\ \E shape \in {"unreadable", "data", "quality"} :
          response_file =
              [readable |-> shape # "unreadable",
               content |-> IF shape = "unreadable" THEN << >>
                           ELSE (IF shape = "quality" THEN RaisingQuality \o <<" ">> ELSE << >>)
                                \o RenderDe(de_fields, layout.sep, layout.de_wrap)]
    /\ updated_data = NotReturned
    /\ prompt_in = << >>
    /\ prompt_out = NotReturned
    /\ stack = 0

CallExtractMissingFields ==
    /\ pc = "start"
    /\ \E out \in {ExtractMissingFields(paper_data, response_file)} :
          /\ updated_data' = [returned |-> TRUE, value |-> out.value]
          /\ paper_data' = out.argument
    /\ pc' = "filled"
    /\ UNCHANGED <<inputVars, qa_out, de_out, configVars, workbook, result, runVars,
                   clockVars, promptVars, storeVars, response_file, ollamaVars, stack>>

SpecFill == InitFill /\ [][CallExtractMissingFields]_vars

(***************************************************************************)
(* OllamaInteractionManager.send_prompt (pdf_to_excel.py).  The call is    *)
(* followed request by request: what requests.post does (raise, time out,  *)
(* or reply with a status and a body) is the server's choice.              *)
(***************************************************************************)
S_PdfContent == <<"PDF CONTENT:\n">>
S_Task == <<"\n\nTASK:\n">>
S_Truncated == <<"... [Content truncated due to length]">>

\* full_prompt; max_content_length 0 stands for None
FullPrompt(prompt, pdf_content, max_content_length) ==
    IF pdf_content = << >> THEN prompt
    ELSE S_PdfContent
         \o (IF max_content_length # 0 /\ Len(pdf_content) > max_content_length
             THEN SubSeq(pdf_content, 1, max_content_length) \o S_Truncated
             ELSE pdf_content)
         \o S_Task \o prompt

\* gpu_options["num_gpu"]
NumGpu(use_gpu) == IF use_gpu THEN 100 ELSE 0

\* what a request can come to: requests.post raises, times out, or returns
\* a reply; the body of a reply is a JSON object with the text under the
\* expected key, without that key, with null under it, or no JSON at all
ReplyText == <<"Q", "E", "1">>
Bodies == {"text", "no_key", "null", "not_json"}
Replies ==
    {[outcome |-> "raised", status |-> 0, body |-> "none"],
     [outcome |-> "timeout", status |-> 0, body |-> "none"],
     [outcome |-> "replied", status |-> 500, body |-> "not_json"]}
    \cup {[outcome |-> "replied", status |-> 200, body |-> b] : b \in Bodies}

\* dict.get(key, "") on the decoded body
BodyText(body) ==
    IF body = "text" THEN ReplyText ELSE IF body = "null" THEN NoneCell ELSE << >>

\* the inner try block, after requests.post(chat_endpoint): the function
\* returns from it, or control leaves it towards the generate request
\* (a status other than 200, or an exception of the post or of the decoding)
ChatStep(reply) ==
    IF reply.outcome = "replied" /\ reply.status = 200 /\ reply.body # "not_json"
    THEN [returns |-> TRUE, value |-> BodyText(reply.body)]
    ELSE [returns |-> FALSE, value |-> << >>]

\* the rest of the function, after requests.post(self.api_endpoint): every
\* exception is caught by the outer handlers and gives None
GenerateStep(reply) ==
    IF reply.outcome = "replied" /\ reply.status = 200 /\ reply.body # "not_json"
    THEN BodyText(reply.body)
    ELSE NoneCell

(***************************************************************************)
(* SpecPrompt: one call of send_prompt.                                    *)
(***************************************************************************)
PdfContents == {<< >>, <<"a", "b", "c">>}
ContentLimits == {0, 2}

InitSendPrompt ==
    /\ qa_items = << >>
    /\ de_fields = << >>
    /\ layout = [sep |-> <<" ">>, qa_marked |-> TRUE, de_wrap |-> "marked"]
    /\ response = << >>
    /\ pc = "send_prompt"
    /\ qa_out = NoOutcome
    /\ de_out = NoOutcome
    /\ IdleProcessor
    /\ IdleRun
    /\ clock = 0
    /\ calls = << >>
    /\ document = NoDocument
    /\ config_out = << >>
    /\ IdleStore
    /\ paper_data = EmptyMap
    /\ response_file = [readable |-> FALSE, content |-> << >>]
    /\ updated_data = NotReturned
    /\ prompt_in \in [prompt : {<<"p">>}, pdf_content : PdfContents,
                      max_content_length : ContentLimits, use_gpu : BOOLEAN]
    /\ prompt_out = NotReturned
    /\ stack = 0

promptUnchanged == <<inputVars, qa_out, de_out, configVars, workbook, result, pdf_files,
                     num_question, clockVars, promptVars, storeVars, fillerVars, prompt_in,
                     stack>>

Request(endpoint, reply) ==
    [endpoint |-> endpoint,
     prompt |-> FullPrompt(prompt_in.prompt, prompt_in.pdf_content,
                           prompt_in.max_content_length),
     num_gpu |-> NumGpu(prompt_in.use_gpu),
     reply |-> reply]

\* the request to /api/chat and what follows it inside the inner try
SendChat ==
    /\ pc = "send_prompt"
    /\ \E reply \in Replies :
          /\ requests' = Append(requests, Request("chat", reply))
          /\ IF ChatStep(reply).returns
             THEN /\ prompt_out' = [returned |-> TRUE, value |-> ChatStep(reply).value]
                  /\ pc' = "returned"
             ELSE /\ prompt_out' = prompt_out
                  /\ pc' = "fallback"
    /\ UNCHANGED promptUnchanged

\* the request to /api/generate and the return
SendGenerate ==
    /\ pc = "fallback"
    /\ \E reply \in Replies :
          /\ requests' = Append(requests, Request("generate", reply))
          /\ prompt_out' = [returned |-> TRUE, value |-> GenerateStep(reply)]
    /\ pc' = "returned"
    /\ UNCHANGED promptUnchanged

NextSendPrompt == SendChat \/ SendGenerate

SpecPrompt == InitSendPrompt /\ [][NextSendPrompt]_vars

(***************************************************************************)
(* SpecRecover: one call of apply_excel_template followed frame by frame.  *)
(* The except branch removes the workbook file and calls the method again  *)
(* with the same arguments; stack holds the frames of the method, and the  *)
(* interpreter raises RecursionError in a call made at its limit.  Whether *)
(* a save to full_excel_path and os.remove succeed is the file system's    *)
(* choice.                                                                 *)
(***************************************************************************)
\* the frames of apply_excel_template the interpreter allows
RecursionLimit == 3

\* an identifier that is no string (an id or key the YAML file gives as a
\* number), as one symbol
NumberIdentifier == <<"2023">>
IsString(identifier) == identifier # NumberIdentifier

\* any(identifier.startswith("QE") for identifier in identifiers) raises
\* AttributeError: a non-string identifier is reached before one that
\* starts with QE
StartsWithRaises(identifiers) ==
    \E i \in 1..Len(identifiers) :
        /\ ~IsString(identifiers[i])
        /\ \A j \in 1..(i - 1) : ~StartsWithAt(identifiers[j], S_QE, 1)

RecoverIdentifiers ==
    TemplateIdentifiers \cup {<<NumberIdentifier>>, <<QE1, NumberIdentifier>>}
\* a workbook with one row in the data sheet
StoredWorkbook ==
    FillExcelWithData(ApplyExcelTemplate(CreatedWorkbook, "de_sheet", <<K_TITLE, K_YEAR>>),
                      "de_sheet", AsCells(Put(EmptyMap, K_TITLE, V_JaneDoe)))

InitRecover ==
    /\ qa_items = << >>
    /\ de_fields = << >>
    /\ layout = [sep |-> <<" ">>, qa_marked |-> TRUE, de_wrap |-> "marked"]
    /\ response = << >>
    /\ pc = "template_call"
    /\ qa_out = NoOutcome
    /\ de_out = NoOutcome
    /\ excluding_questions = << >>
    /\ cutoff_score = 0
    /\ result = InitialResult
    /\ IdleRun
    /\ clock = 0
    /\ calls = << >>
    /\ document = NoDocument
    /\ config_out = << >>
    /\ file \in {"missing", "valid", "corrupted"}
    /\ workbook \in (IF file = "valid" THEN {CreatedWorkbook, StoredWorkbook}
                     ELSE {CreatedWorkbook})
    /\ last_call = NoCall
    /\ paper_data = EmptyMap
    /\ response_file = [readable |-> FALSE, content |-> << >>]
    /\ updated_data = NotReturned
    /\ prompt_in = << >>
    /\ prompt_out = NotReturned
    /\ stack \in {<<[sheet_name |-> s, identifiers |-> ids]>> :
                     s \in SheetNames, ids \in RecoverIdentifiers}

recoverUnchanged == <<inputVars, qa_out, de_out, configVars, result, runVars, clockVars,
                      promptVars, fillerVars, ollamaVars>>

TemplateReturn(frame, ok) ==
    [op |-> "template", sheet |-> frame.sheet_name, data |-> EmptyMap, ok |-> ok,
     saved |-> ok]

\* the body of the method in the frame on top of the stack, up to its return
\* or to the call it makes of itself
TemplateBody ==
    /\ pc = "template_call"
    /\ \E save_ok \in BOOLEAN : \E remove_ok \in BOOLEAN :
       \E frame \in {stack[Len(stack)]} :
          IF file # "valid" /\ ~save_ok
          THEN \* _ensure_valid_workbook cannot create the file and raises;
               \* os.remove finds no file and raises: Recovery failed
               /\ file' = "missing"
               /\ workbook' = CreatedWorkbook
               /\ last_call' = TemplateReturn(frame, FALSE)
               /\ pc' = "template_return"
               /\ stack' = stack
          ELSE IF StartsWithRaises(frame.identifiers) \/ ~save_ok
          THEN \* the try block raises with the file in place
               IF remove_ok /\ Len(stack) < RecursionLimit
               THEN /\ file' = "missing"
                    /\ workbook' = CreatedWorkbook
                    /\ stack' = Append(stack, frame)
                    /\ UNCHANGED <<pc, last_call>>
               ELSE \* os.remove raises, or the call raises RecursionError
                    /\ file' = (IF remove_ok THEN "missing" ELSE "valid")
                    /\ workbook' = (IF remove_ok THEN CreatedWorkbook
                                    ELSE EnsureValidWorkbook(file, workbook))
                    /\ last_call' = TemplateReturn(frame, FALSE)
                    /\ pc' = "template_return"
                    /\ stack' = stack
          ELSE /\ file' = "valid"
               /\ workbook' = ApplyExcelTemplate(EnsureValidWorkbook(file, workbook),
                                                 frame.sheet_name, frame.identifiers)
               /\ last_call' = TemplateReturn(frame, TRUE)
               /\ pc' = "template_return"
               /\ stack' = stack
    /\ UNCHANGED recoverUnchanged

\* `return True`, `return False` or `return self.apply_excel_template(...)`:
\* the frame on top leaves the stack and hands its value down
TemplateFrameReturns ==
    /\ pc = "template_return"
    /\ stack' = SubSeq(stack, 1, Len(stack) - 1)
    /\ pc' = (IF Len(stack) = 1 THEN "excel" ELSE "template_return")
    /\ UNCHANGED <<recoverUnchanged, file, workbook, last_call>>

NextRecover == TemplateBody \/ TemplateFrameReturns

SpecRecover == InitRecover /\ [][NextRecover]_vars

(***************************************************************************)
(* Properties of the quality path (checked under SpecQA).                  *)
(***************************************************************************)
EndsWith(k, suffix) ==
    Len(k) >= Len(suffix) /\ Slice(k, Len(k) - Len(suffix) + 1, Len(k) + 1) = suffix

DistinctIds(items) ==
    \A i, j \in 1..Len(items) : items[i].id = items[j].id => i = j

RECURSIVE SumValidScores(_)
SumValidScores(items) ==
    IF items = << >> THEN 0
    ELSE (IF FloatOk(Head(items).score) THEN FloatValue(Head(items).score) ELSE 0)
         + SumValidScores(Tail(items))

RECURSIVE SumOver(_, _)
SumOver(keys, m) ==
    IF keys = {} THEN 0
    ELSE LET k == CHOOSE x \in keys : TRUE
         IN  (IF IsNum(m[k]) THEN m[k].n ELSE 0) + SumOver(keys \ {k}, m)

\* a well-formed marked quality block: each id once, as `QEn: description`
\* followed by `QEn_SCORE: number`
WellFormedQaBlock ==
    /\ layout.qa_marked
    /\ qa_items # << >>
    /\ DistinctIds(qa_items)
    /\ \A k \in 1..Len(qa_items) :
          qa_items[k].marker = S_SCORE_MARKER /\ qa_items[k].score \in ValidScores

\* the entries the block holds: QEn -> trimmed description (double quotes
\* removed), QEn_SCORE -> score, TOTAL_SCORE -> the sum
BlockEntries(items) ==
    LET ids == {items[k].id : k \in 1..Len(items)}
        at(id) == CHOOSE k \in 1..Len(items) : items[k].id = id
    IN  [key \in ids \cup {id \o S_SCORE : id \in ids} \cup {S_TOTAL_SCORE} |->
            IF key \in ids THEN Str(RemoveChar(Strip(items[at(key)].desc), "\""))
            ELSE IF key = S_TOTAL_SCORE THEN Num(SumValidScores(items))
            ELSE Num(FloatValue(items[at(Slice(key, 1, Len(key) - Len(S_SCORE) + 1))].score))]

\* C1: on a well-formed marked quality block get_quality_assessment_text
\* returns exactly QEn -> trimmed description and QEn_SCORE -> score for the
\* ids of the block, plus TOTAL_SCORE = the sum of the scores, and no other entry.
C1_WellFormedBlockExact ==
    (pc = "qa_done" /\ WellFormedQaBlock)
        => (~qa_out.raised /\ qa_out.map = BlockEntries(qa_items))

\* the <id>_SCORE keys of a map
ItemScoreKeys(m) ==
    {k \in DOMAIN m : EndsWith(k, S_SCORE) /\ k # S_TOTAL_SCORE}

\* C2: TOTAL_SCORE of the returned map equals the sum of the values of the
\* <id>_SCORE entries of that same map, for every response and tier.
C2_TotalIsSumOfMapScores ==
    (pc = "qa_done" /\ ~qa_out.raised)
        => qa_out.map[S_TOTAL_SCORE].n = SumOver(ItemScoreKeys(qa_out.map), qa_out.map)

\* C3: every key of the returned map that ends in _SCORE has a numeric value.
C3_ScoreKeysNumeric ==
    (pc = "qa_done" /\ ~qa_out.raised)
        => \A k \in DOMAIN qa_out.map : EndsWith(k, S_SCORE) => IsNum(qa_out.map[k])

\* C4 (dropped-field law): in whichever tier parses the response, an item
\* whose captured score text is no valid number is absent from the returned
\* map and adds nothing to TOTAL_SCORE, and every sibling with a valid score
\* is returned with its description and score.  Stated for responses whose
\* items carry distinct ids and the `QEn_SCORE:` marker all tiers accept.
C4_DroppedFieldLaw ==
    (/\ pc = "qa_done"
     /\ DistinctIds(qa_items)
     /\ \A k \in 1..Len(qa_items) : qa_items[k].marker = S_SCORE_MARKER)
        => /\ ~qa_out.raised
           /\ qa_out.map[S_TOTAL_SCORE] = Num(SumValidScores(qa_items))
           /\ \A k \in 1..Len(qa_items) :
                 IF FloatOk(qa_items[k].score)
                 THEN /\ qa_items[k].id \in DOMAIN qa_out.map
                      /\ qa_out.map[qa_items[k].id] =
                            Str(RemoveChar(Strip(qa_items[k].desc), "\""))
                      /\ qa_out.map[qa_items[k].id \o S_SCORE] =
                            Num(FloatValue(qa_items[k].score))
                 ELSE /\ qa_items[k].id \notin DOMAIN qa_out.map
                      /\ (qa_items[k].id \o S_SCORE) \notin DOMAIN qa_out.map

\* the same law on marked responses only, where it holds
DroppedFieldLawMarked == layout.qa_marked => C4_DroppedFieldLaw

\* C5: no content of the response makes get_quality_assessment_text or
\* get_data_extraction_text raise.
C5_NeverRaises == ~qa_out.raised /\ ~de_out.raised

(***************************************************************************)
(* Properties of the data path (checked under SpecDE).                     *)
(***************************************************************************)
\* C6: the returned data map holds no key whose value is empty after trimming.
C6_NoEmptyValue ==
    pc = "de_done" => \A k \in DOMAIN de_out.map : Strip(de_out.map[k]) # << >>

\* a marked block of `KEY: value` fields with upper-case keys and mixed-case values
WellFormedDeBlock ==
    /\ layout.de_wrap = "marked"
    /\ \A k \in 1..Len(de_fields) :
          de_fields[k].key \in UpperKeys /\ de_fields[k].value \in MixedCaseValues

\* one entry per key of the block, mapped to the trimmed value of its last field
FieldEntries(fields) ==
    LET keys == {fields[k].key : k \in 1..Len(fields)}
        last(key) == CHOOSE k \in 1..Len(fields) :
                        /\ fields[k].key = key
                        /\ \A j \in (k + 1)..Len(fields) : fields[j].key # key
    IN  [key \in keys |-> Strip(fields[last(key)].value)]

\* C7: for a marked data block of KEY: value fields with upper-case keys, in
\* any order and number, separated by spaces or line breaks, with mixed-case
\* values, get_data_extraction_text returns exactly one entry per key, mapped
\* to its trimmed value, and no other entry.
C7_FieldsRecovered ==
    (pc = "de_done" /\ WellFormedDeBlock) => de_out.map = FieldEntries(de_fields)

\* a block of two different fields in the class of C7, separated by spaces
\* only, has been parsed
C7_Witness ==
    /\ pc = "de_done"
    /\ WellFormedDeBlock
    /\ layout.sep = <<" ">>
    /\ Len(de_fields) = 2
    /\ de_fields[1].key # de_fields[2].key
    /\ DOMAIN de_out.map = {de_fields[1].key, de_fields[2].key}


(***************************************************************************)
(* Properties of process_response (checked under SpecProc).                *)
(***************************************************************************)
\* the excluding ids whose score is in the quality map and equals 0
ZeroScoredExcluding ==
    {i \in 1..Len(excluding_questions) :
        LET k == excluding_questions[i] \o S_SCORE
        IN  k \in DOMAIN qa_out.map /\ qa_out.map[k] = Num(0)}

Classified == pc = "processed" /\ ~qa_out.raised

\* C8: when some excluding id has its score in the quality map and equal
\* to 0, process_response reports the paper rejected with the
\* excluding-question reason naming such an id, writes no data row, and
\* this holds whatever TOTAL_SCORE is; the below-cutoff reason never
\* takes its place.
C8_ExcludingZeroRejects ==
    (Classified /\ ZeroScoredExcluding # {}) =>
        /\ result.success
        /\ result.rejected
        /\ result.reason.kind = "excluding"
        /\ \E i \in ZeroScoredExcluding : result.reason.id = excluding_questions[i]
        /\ ~result.de_added

\* an excluding item scored 0 in a paper whose total reaches the cutoff
C8_Witness ==
    /\ Classified
    /\ ZeroScoredExcluding # {}
    /\ cutoff_score > 0
    /\ qa_out.map[S_TOTAL_SCORE].n >= cutoff_score
    /\ result.reason.kind = "excluding"

\* C9: when no excluding id has a score that is present and 0 (an absent
\* score never triggers), process_response rejects with the below-cutoff
\* reason exactly when TOTAL_SCORE < cutoff, and otherwise accepts: not
\* rejected, no reason, and the data row written when there is data.
C9_CutoffDecides ==
    (Classified /\ ZeroScoredExcluding = {}) =>
        /\ result.success
        /\ result.score = qa_out.map[S_TOTAL_SCORE].n
        /\ result.score < cutoff_score =>
               result.rejected /\ result.reason.kind = "cutoff" /\ ~result.de_added
        /\ result.score >= cutoff_score =>
               /\ ~result.rejected
               /\ result.reason = NoReason
               /\ result.de_added = (de_out.map # EmptyMap)

\* an excluding id without a score in the map, in a paper that is accepted
\* with a total equal to a positive cutoff
C9_Witness ==
    /\ Classified
    /\ \E i \in 1..Len(excluding_questions) :
           excluding_questions[i] \o S_SCORE \notin DOMAIN qa_out.map
    /\ cutoff_score > 0
    /\ result.score = cutoff_score
    /\ ~result.rejected
    /\ result.de_added


(***************************************************************************)
(* Properties of PDFToExcelProcessor.run (checked under SpecRun).          *)
(***************************************************************************)
\* the quality map of the answer a PDF got
AnswerQuality(i) == GetQualityAssessmentText(pdf_files[i].response.text)

Answered(i) ==
    pdf_files[i].visited /\ pdf_files[i].response.has /\ ~AnswerQuality(i).raised

\* some excluding question has a score of 0 in the answer's quality map
ExcludedAnswer(i) ==
    \E k \in 1..Len(excluding_questions) :
        Get(AnswerQuality(i).map, excluding_questions[k] \o S_SCORE, Num(1)) = Num(0)

\* the answer's total reaches the cutoff and no excluding question scored 0
QualifiedAnswer(i) ==
    /\ AnswerQuality(i).map[S_TOTAL_SCORE].n >= cutoff_score
    /\ ~ExcludedAnswer(i)

\* C10: in run, a PDF whose answer has a total at or above the cutoff and
\* no excluding question scored 0 is moved to the analysed folder and its
\* data row is written; only a PDF whose total is below the cutoff, or
\* with an excluding question scored 0, is moved to the rejected folder.
C10_QualifiedGoesToAnalysed ==
    /\ \A i \in 1..Len(pdf_files) :
          Answered(i) =>
              /\ QualifiedAnswer(i) => pdf_files[i].folder = "analysed"
              /\ pdf_files[i].folder = "rejected" => ~QualifiedAnswer(i)
    /\ pc \in {"run_loop", "run_done"} =>
          Len(workbook["de_sheet"].rows) =
              Cardinality({i \in 1..Len(pdf_files) : Answered(i) /\ QualifiedAnswer(i)})

(***************************************************************************)
(* Properties of the choice of tier (checked under SpecMarkers).           *)
(***************************************************************************)
AnyQaMarker == \E i \in 1..Len(response) : response[i] \in {QA_START, QA_END}

\* C11: the legacy pattern is applied only to a response in which no
\* quality marker exists at all; and when a marked tier produced the
\* result, no entry of the map comes from text outside the marked block.
C11_LegacyOnlyWithoutMarkers ==
    pc = "qa_done" =>
        /\ QaTier(response) = "legacy" => ~AnyQaMarker
        /\ QaTier(response) # "legacy" => QE3 \notin DOMAIN qa_out.map

\* the second half of C11 alone, which holds
MarkedTiersStayInBlock ==
    (pc = "qa_done" /\ QaTier(response) # "legacy") =>
        /\ QE3 \notin DOMAIN qa_out.map
        /\ (QE3 \o S_SCORE) \notin DOMAIN qa_out.map

(***************************************************************************)
(* Properties of the legacy tier (checked under SpecLegacy).               *)
(***************************************************************************)
\* the last item written with the id
LastItem(items, id) ==
    items[CHOOSE k \in 1..Len(items) :
             /\ items[k].id = id
             /\ \A j \in (k + 1)..Len(items) : items[j].id # id]

\* C12: for a response without markers the legacy tier recovers every item
\* written as QEn (then ':' or '.' or nothing), a description, and a scoring
\* marker QEn Score, QEnScore or QEn_SCORE (then ':' or '.' or nothing)
\* followed by a number: QEn maps to the trimmed description, QEn_SCORE to
\* the number (those of the last item when an id is written twice), and
\* TOTAL_SCORE to the sum of the numbers.
C12_LegacyRecovers ==
    pc = "qa_done" =>
        /\ ~qa_out.raised
        /\ qa_out.map[S_TOTAL_SCORE] = Num(SumValidScores(qa_items))
        /\ \A k \in 1..Len(qa_items) :
              LET id == qa_items[k].id
                  it == LastItem(qa_items, id)
              IN  /\ id \in DOMAIN qa_out.map
                  /\ (id \o S_SCORE) \in DOMAIN qa_out.map
                  /\ qa_out.map[id] = Str(Strip(it.desc))
                  /\ qa_out.map[id \o S_SCORE] = Num(FloatValue(it.score))

\* two items with different ids, written `QEn. text QEn_SCORE 1.0`, were parsed
C12_Witness ==
    /\ pc = "qa_done"
    /\ Len(qa_items) = 2
    /\ qa_items[1].id # qa_items[2].id
    /\ layout.style.idsep = <<".">>
    /\ layout.style.marker = S_SCORE
    /\ layout.style.msep = << >>
    /\ qa_items[1].score = <<"1", ".", "0">>
    /\ qa_out.map[S_TOTAL_SCORE].n > 0

(***************************************************************************)
(* Properties of tier 2 (checked under SpecTier2).                         *)
(***************************************************************************)
\* C13: when tier 1 recovers no item from a non-empty marked block, tier 2
\* recovers every id whose `QEn:` and own `QEn_SCORE:` both occur in the
\* block with a numeric token after the marker; the score is the text from
\* right after `_SCORE:` up to the next white space or the end of the block.
\* Stated for blocks whose items carry distinct ids.
C13_Tier2Recovers ==
    (/\ pc = "qa_done"
     /\ qa_items # << >>
     /\ DistinctIds(qa_items)
     /\ QaTier(response) = "tier2")
        => /\ ~qa_out.raised
           /\ \A k \in 1..Len(qa_items) :
                 /\ qa_items[k].id \in DOMAIN qa_out.map
                 /\ (qa_items[k].id \o S_SCORE) \in DOMAIN qa_out.map
                 /\ qa_out.map[qa_items[k].id \o S_SCORE] = Num(FloatValue(qa_items[k].score))

\* the same on blocks whose items are separated by spaces, where it holds
Tier2RecoversSpaced == layout.sep = <<" ">> => C13_Tier2Recovers

(***************************************************************************)
(* Properties of repeated extraction (checked under SpecRepeat).           *)
(***************************************************************************)
\* C14: idempotence: a later call of process_response on the same response
\* yields the same extraction as an earlier one: the same quality map, the
\* same data map, the same total, the same rejected flag and reason.
C14_Idempotent ==
    \A i \in 1..Len(calls) : \A j \in 1..Len(calls) : calls[i] = calls[j]

\* apart from the title entry the calls agree, and within one second, or on a
\* response that gives a title, they agree altogether
SameButTitle(a, b) ==
    /\ Remove(a.qa_data, S_TITLE) = Remove(b.qa_data, S_TITLE)
    /\ Remove(a.de_data, S_TITLE) = Remove(b.de_data, S_TITLE)
    /\ a.score = b.score
    /\ a.rejected = b.rejected
    /\ a.reason = b.reason
IdempotentButTitle ==
    /\ \A i \in 1..Len(calls) : \A j \in 1..Len(calls) : SameButTitle(calls[i], calls[j])
    /\ (clock = 0 \/ FirstTitle(de_out.map, TitleKeys) # << >>) => C14_Idempotent

(***************************************************************************)
(* The empty response (checked under SpecProc).                            *)
(***************************************************************************)
\* the keys of a quality map that belong to an item: QEn and QEn_SCORE
ItemKeys(map) == {k \in DOMAIN map : StartsWithAt(k, S_QE, 1)}

\* C15: for the empty response string extraction does not raise, the quality
\* map holds no item entry, the data map holds no entry, and TOTAL_SCORE,
\* like the score of the result, is 0.
C15_EmptyResponse ==
    (pc = "processed" /\ response = << >>)
        => /\ ~qa_out.raised
           /\ ~de_out.raised
           /\ result.success
           /\ ItemKeys(qa_out.map) = {}
           /\ S_TOTAL_SCORE \in DOMAIN qa_out.map
           /\ qa_out.map[S_TOTAL_SCORE] = Num(0)
           /\ result.score = 0
           /\ de_out.map = EmptyMap
           /\ ~result.de_added

C15_Witness ==
    /\ pc = "processed"
    /\ response = << >>
    /\ qa_out.map[S_TOTAL_SCORE] = Num(0)
    /\ de_out.map = EmptyMap

(***************************************************************************)
(* Properties of the configuration getters (checked under SpecConfig).     *)
(***************************************************************************)
\* the document is empty, not parseable, or a mapping without section key
Lacks(doc, key) == doc.kind \in {"empty", "malformed"} \/ (doc.kind = "mapping" /\ key \notin DOMAIN doc.map)

GetterReturnsEmpty(name, key) ==
    (name \in DOMAIN config_out /\ Lacks(document, key))
        => (~config_out[name].raised /\ config_out[name].value = << >>)

\* C16: on a document that is empty, malformed or lacks a required section
\* no getter raises: each of the three list getters returns the empty list
\* for the section that is missing, and get_analysis_prompt returns the
\* empty prompt whenever the quality list or the field list is missing.
C16_MissingDegradesToEmpty ==
    /\ GetterReturnsEmpty("get_all_quality_assessment_fields", K_Questions)
    /\ GetterReturnsEmpty("get_all_data_extraction_fields", K_Fields)
    /\ GetterReturnsEmpty("get_all_excluding_questions", K_Excluding)
    /\ ("get_analysis_prompt" \in DOMAIN config_out
        /\ (Lacks(document, K_Questions) \/ Lacks(document, K_Fields)))
          => (~config_out["get_analysis_prompt"].raised
              /\ config_out["get_analysis_prompt"].value = << >>)

\* the three list getters do degrade, and so does the prompt on a mapping
\* whose entries are complete
ListGettersDegrade ==
    /\ GetterReturnsEmpty("get_all_quality_assessment_fields", K_Questions)
    /\ GetterReturnsEmpty("get_all_data_extraction_fields", K_Fields)
    /\ GetterReturnsEmpty("get_all_excluding_questions", K_Excluding)
    /\ ("get_analysis_prompt" \in DOMAIN config_out /\ document.kind = "mapping"
        /\ Get(document.map, K_Questions, << >>) # <<Q1NoScores>>
        /\ (Lacks(document, K_Questions) \/ Lacks(document, K_Fields)))
          => (~config_out["get_analysis_prompt"].raised
              /\ config_out["get_analysis_prompt"].value = << >>)


\* the first index of line in lines, 0 when it is not there
RECURSIVE IndexFrom(_, _, _)
IndexFrom(lines, line, k) ==
    IF k > Len(lines) THEN 0
    ELSE IF lines[k] = line THEN k
    ELSE IndexFrom(lines, line, k + 1)
IndexOf(lines, line) == IndexFrom(lines, line, 1)

\* a mapping with both lists non-empty and every entry complete
NonEmptyLists(doc) ==
    /\ doc.kind = "mapping"
    /\ {K_Questions, K_Fields} \subseteq DOMAIN doc.map
    /\ doc.map[K_Questions] \notin {<< >>, <<Q1NoScores>>}
    /\ doc.map[K_Fields] # << >>

\* the order of the parts of prompt p: the item lines of the list qa, the
\* quality block with an example pair, the data block, the rules at the end
PromptOrder(p, qa) ==
    LET i1 == IndexOf(p, <<"===== PART 1: QUALITY ASSESSMENT =====">>)
        qs == IndexOf(p, <<"==QUALITY_ASSESSMENT_START==">>)
        qe == IndexOf(p, <<"==QUALITY_ASSESSMENT_END==">>)
        ds == IndexOf(p, <<"==DATA_EXTRACTION_START==">>)
        de == IndexOf(p, <<"==DATA_EXTRACTION_END==">>)
        ir == IndexOf(p, <<"IMPORTANT INSTRUCTIONS:">>)
    IN  /\ i1 > 0
        /\ \A k \in 1..Len(qa) : p[i1 + k] = QaLine(qa[k])
        /\ i1 + Len(qa) < qs
        /\ qs + 2 < qe
        /\ p[qs + 1][2] = ": ["
        /\ p[qs + 2] = <<p[qs + 1][1], "_SCORE: [", "score", "]">>
        /\ qe < ds
        /\ ds < de
        /\ de < ir
        /\ SubSeq(p, ir, Len(p)) = RuleLines

\* the data block of prompt p holds one `KEY: [value]` line per field of fs
ExamplePerField(p, fs) ==
    LET ds == IndexOf(p, <<"==DATA_EXTRACTION_START==">>)
        de == IndexOf(p, <<"==DATA_EXTRACTION_END==">>)
    IN  /\ de - ds - 1 = Len(fs)
        /\ \A k \in 1..Len(fs) :
              /\ Len(p[ds + k]) = 4
              /\ p[ds + k][1] = fs[k].key
              /\ p[ds + k][2] = ": ["
              /\ p[ds + k][4] = "]"

\* C18: for a configuration with non-empty lists the prompt holds, in this
\* order, one line per quality item in declaration order, the marked
\* quality block with an example id/score pair, the marked data block with
\* one example `KEY: [value]` line for each declared extraction field, and
\* the formatting rules at the end.
C18_PromptStructure ==
    ("get_analysis_prompt" \in DOMAIN config_out /\ NonEmptyLists(document))
        => /\ ~config_out["get_analysis_prompt"].raised
           /\ PromptOrder(config_out["get_analysis_prompt"].value, document.map[K_Questions])
           /\ ExamplePerField(config_out["get_analysis_prompt"].value, document.map[K_Fields])

\* all but the lines of the data block is as C18 says
PromptOrderHolds ==
    ("get_analysis_prompt" \in DOMAIN config_out /\ NonEmptyLists(document))
        => /\ ~config_out["get_analysis_prompt"].raised
           /\ PromptOrder(config_out["get_analysis_prompt"].value, document.map[K_Questions])
           /\ ExamplePerField(config_out["get_analysis_prompt"].value, <<F_AUTHOR, F_YEAR, F_TITLE>>)

(***************************************************************************)
(* Properties of the prompt in the folder run (checked under SpecRunPrompt).*)
(***************************************************************************)
\* C17: an empty prompt is never sent to the language model: when
\* get_analysis_prompt returns the empty prompt for a PDF, run makes no
\* request for that PDF, so every prompt posted is a non-empty one.
C17_EmptyPromptNotSent ==
    \A k \in 1..Len(requests) : requests[k] # << >>

\* a request is made only for a PDF whose text could be read, one per PDF,
\* and with both lists in the configuration its prompt is not empty
RequestsPerPdf ==
    /\ Len(requests) <= Cardinality({i \in 1..Len(pdf_files) : pdf_files[i].visited})
    /\ NonEmptyLists(document) => C17_EmptyPromptNotSent

(***************************************************************************)
(* Properties of the sheet store (checked under SpecExcel).                *)
(***************************************************************************)
HeaderSet(ws) == {ws.headers[i] : i \in 1..Len(ws.headers)}
LastFillSucceeded == last_call.op = "fill" /\ last_call.ok
\* the row the last fill wrote, when the sheet has one
LastRow(wb, sheet_name) == wb[sheet_name].rows[Len(wb[sheet_name].rows)]

\* C19: after fill_excel_with_data(sheet, data) succeeds every key of data
\* is a column of the sheet and its value is stored in the new row: a key
\* that was not among the headers is added, not dropped.
C19_KeysUnioned ==
    LastFillSucceeded
        => /\ last_call.sheet \in DOMAIN workbook
           /\ workbook[last_call.sheet].rows # << >>
           /\ \A k \in DOMAIN last_call.data :
                 /\ k \in HeaderSet(workbook[last_call.sheet])
                 /\ LastRow(workbook, last_call.sheet)[k] = last_call.data[k]

\* what a fill that was saved does store: the keys that are headers
KnownKeysStored ==
    (LastFillSucceeded /\ last_call.saved)
        => /\ last_call.sheet \in DOMAIN workbook
           /\ workbook[last_call.sheet].rows # << >>
           /\ \A k \in DOMAIN last_call.data \cap HeaderSet(workbook[last_call.sheet]) :
                 LastRow(workbook, last_call.sheet)[k] = last_call.data[k]
           /\ \A h \in HeaderSet(workbook[last_call.sheet]) \ DOMAIN last_call.data :
                 LastRow(workbook, last_call.sheet)[h] = Str(<< >>)

IsPrefix(s, t) == Len(s) <= Len(t) /\ SubSeq(t, 1, Len(s)) = s

\* no data row is removed or changed by the step
RowsKept ==
    \A s \in DOMAIN workbook :
        /\ workbook[s].rows # << >> => s \in DOMAIN workbook'
        /\ s \in DOMAIN workbook' => IsPrefix(workbook[s].rows, workbook'[s].rows)

\* a fill that returns True adds one row to its sheet, after the last one
OneRowAdded ==
    (last_call'.op = "fill" /\ last_call'.ok)
        => /\ last_call'.sheet \in DOMAIN workbook'
           /\ Len(workbook'[last_call'.sheet].rows)
                 = 1 + (IF last_call'.sheet \in DOMAIN workbook
                        THEN Len(workbook[last_call'.sheet].rows) ELSE 0)

\* C20: the sheet store is append-only: no call of create_excel_file,
\* apply_excel_template, fill_excel_with_data or get_existing_data, with
\* their recovery paths, removes or changes a data row written before, and
\* each successful fill adds exactly one row after the last existing row.
C20_AppendOnly ==
    [][(last_call' # last_call \/ workbook' # workbook) => (RowsKept /\ OneRowAdded)]_vars

\* on a file that loads, with every save going through, the template, fill
\* and get methods keep the rows and each fill adds one
AppendOnlyWhileSound ==
    [][(file = "valid"
        /\ (last_call'.op = "get" \/ (last_call'.op \in {"template", "fill"} /\ last_call'.saved))
        /\ (last_call' # last_call \/ workbook' # workbook))
          => (RowsKept /\ OneRowAdded)]_vars

(***************************************************************************)
(* Upper-case values in the marked data block (checked under SpecDE).      *)
(***************************************************************************)
\* a marked block of upper-case keys whose values are mixed-case or the
\* all-upper-case word IEEE, the latter at least once
UpperWordBlock ==
    /\ layout.de_wrap = "marked"
    /\ \A k \in 1..Len(de_fields) :
          de_fields[k].key \in UpperKeys /\ de_fields[k].value \in MixedCaseValues \cup {V_IEEE}
    /\ \E k \in 1..Len(de_fields) : de_fields[k].value = V_IEEE

\* C21: in a marked block a value that is an all-upper-case word is stored
\* as the value of its own key, and the key that follows it, a key with an
\* ` OF ` infix included, is recovered under its own name: the map holds
\* exactly the keys of the block, none with the preceding value merged in.
C21_UpperWordValueKept ==
    (pc = "de_done" /\ UpperWordBlock) => de_out.map = FieldEntries(de_fields)

\* `YEAR: IEEE DOF OF ARM: 2023` has been parsed into its two fields
C21_Witness ==
    /\ pc = "de_done"
    /\ layout.de_wrap = "marked"
    /\ layout.sep = <<" ">>
    /\ de_fields = <<[key |-> K_YEAR, value |-> V_IEEE], [key |-> K_DOF, value |-> V_2023]>>
    /\ de_out.map = FieldEntries(de_fields)

(***************************************************************************)
(* The manual boundary walk of the data path (checked under SpecDE).       *)
(***************************************************************************)
\* a marked block with at least one `key:` written in it on which the field
\* pattern finds nothing
NoFieldMatched ==
    /\ pc = "de_done"
    /\ layout.de_wrap = "marked"
    /\ de_fields # << >>
    /\ DataTier(response) # "tier1"

\* C22: the manual boundary walk is reachable with effect: on a marked block
\* that holds a key-colon occurrence and on which the field pattern yields
\* no match, the walk is what fills the map, and it stores for each key the
\* text from the end of that key to the start of the next key or the end of
\* the block.
C22_ManualWalkStores ==
    NoFieldMatched
        => /\ DataTier(response) = "tier2"
           /\ de_out.map = FieldEntries(de_fields)

\* the walk never fills the map: where the field pattern finds nothing, the
\* list of potential keys is empty as well
ManualWalkNeverStores == pc = "de_done" => DataTier(response) # "tier2"


(***************************************************************************)
(* The emergency title pattern.                                            *)
(***************************************************************************)
\* a marked block whose first field has the key `title` in lower case and a
\* title text, and from which the three tiers recover no key
EmergencyBlock ==
    /\ pc = "de_done"
    /\ layout.de_wrap = "marked"
    /\ de_fields # << >>
    /\ de_fields[1].key = K_title
    /\ de_fields[1].value # << >>
    /\ MarkedDataFields(MarkedBlock(response, DE_START, DE_END).content) = EmptyMap

\* C23: when the marked data block is not empty, the three tiers recovered
\* no key and the block holds a TITLE: field in any letter case followed by
\* a title text, the returned map has the entry TITLE with that text, trimmed.
C23_EmergencyTitle ==
    EmergencyBlock =>
        /\ S_TITLE \in DOMAIN de_out.map
        /\ de_out.map[S_TITLE] = Strip(de_fields[1].value)

\* what the code does: under IGNORECASE the lookahead `\s[A-Z]{2,}` is met by
\* the white space after the colon and the first two letters of the title,
\* so a title that starts with a word of two letters or more comes out empty
EmergencyTitleOfWordsIsEmpty ==
    (EmergencyBlock /\ Len(de_fields[1].value) >= 2
         /\ IsLetter(de_fields[1].value[1]) /\ IsLetter(de_fields[1].value[2]))
        => de_out.map = Put(EmptyMap, S_TITLE, << >>)

EmergencyTitleReached ==
    EmergencyBlock /\ de_fields[1].value = V_JaneDoe


(***************************************************************************)
(* The legacy data path.                                                   *)
(***************************************************************************)
\* the lines before the end marker (all of them when there is none)
SectionLines ==
    IF layout.marker = 0 THEN de_fields ELSE SubSeq(de_fields, 1, layout.cut)

\* one entry for each key of a line with a colon, the last line of a key
\* winning, the value cleaned by `clean`
LineEntries(lines, clean(_)) ==
    LET with_colon == SelectSeq(lines, LAMBDA f : f.shape # "nocolon")
        keys == {with_colon[k].key : k \in 1..Len(with_colon)}
        last(key) == CHOOSE k \in 1..Len(with_colon) :
                        /\ with_colon[k].key = key
                        /\ \A j \in (k + 1)..Len(with_colon) : with_colon[j].key # key
    IN  [key \in keys |-> clean(with_colon[last(key)])]

\* the text after the first colon of the line, trimmed, without quotes and
\* asterisks
ValueWithoutQuotesAndAsterisks(f) == f.value

\* the same text as line 424 cleans it: without quotes only
ValueWithoutQuotes(f) ==
    IF f.shape = "bold" THEN <<"*", "*", " ">> \o f.value ELSE f.value

\* C24: on the legacy data path every line of the section with a colon is
\* split at its first colon into key and value, both trimmed and stripped of
\* quotes and asterisks; lines without a colon and the text from the earliest
\* end marker on contribute no entry.
C24_LegacyLines ==
    pc = "de_done" => de_out.map = LineEntries(SectionLines, ValueWithoutQuotesAndAsterisks)

\* what the code does: the asterisks are taken out of the key only
LegacyKeepsAsterisksInValue ==
    pc = "de_done" => de_out.map = LineEntries(SectionLines, ValueWithoutQuotes)

LegacyBoldLineRead ==
    /\ pc = "de_done"
    /\ \E k \in 1..Len(SectionLines) : SectionLines[k].shape = "bold"
    /\ \E k \in 1..Len(de_fields) : de_fields[k].shape = "nocolon"
    /\ layout.marker # 0


(***************************************************************************)
(* The rows process_response writes (checked under SpecProc).              *)
(***************************************************************************)
RowsWritten(sheet_name) ==
    Len(workbook[sheet_name].rows) - Len(EnsureExcelFileExists[sheet_name].rows)

\* the paper is accepted: no excluding question has the score 0 and the
\* total reaches the cutoff
PaperAccepted ==
    /\ \A k \in 1..Len(excluding_questions) :
          LET key == excluding_questions[k] \o S_SCORE
          IN  ~(key \in DOMAIN qa_out.map /\ qa_out.map[key] = Num(0))
    /\ Get(qa_out.map, S_TOTAL_SCORE, Num(0)).n >= cutoff_score

NoRowWhenRaised ==
    (pc = "processed" /\ ~result.success) =>
        (RowsWritten("qa_sheet") = 0 /\ RowsWritten("de_sheet") = 0)


(***************************************************************************)
(* The moves of run (checked under SpecRun).                               *)
(***************************************************************************)
\* the PDF got no answer, or the parser raised on its answer
UnansweredOrRaised(i) ==
    pdf_files[i].visited /\ (~pdf_files[i].response.has \/ AnswerQuality(i).raised)

\* C26: in run each PDF is moved at most once, to the analysed folder or to
\* the rejected folder and never to both; a PDF that got no response, or
\* whose processing raised, is moved to neither.
C26_AtMostOneMove ==
    \A i \in 1..Len(pdf_files) :
        /\ Len(pdf_files[i].moves) <= 1
        /\ pdf_files[i].moves = << >> => pdf_files[i].folder = "inbox"
        /\ pdf_files[i].moves # << >> =>
              /\ pdf_files[i].moves[1] \in {"analysed", "rejected"}
              /\ pdf_files[i].folder = pdf_files[i].moves[1]
        /\ UnansweredOrRaised(i) => pdf_files[i].moves = << >>

\* a run over two PDFs: one whose answer scores both excluding questions 0
\* and was moved once, one without an answer that was left in place
C26_Witness ==
    /\ pc = "run_done"
    /\ Len(pdf_files) = 2
    /\ excluding_questions = <<QE1, QE2>>
    /\ pdf_files[1].response.has
    /\ ~AnswerQuality(1).raised
    /\ Get(AnswerQuality(1).map, QE1 \o S_SCORE, Num(1)) = Num(0)
    /\ Get(AnswerQuality(1).map, QE2 \o S_SCORE, Num(1)) = Num(0)
    /\ pdf_files[1].moves = <<"rejected">>
    /\ ~pdf_files[2].response.has
    /\ pdf_files[2].moves = << >>

\* a PDF whose answer makes the parser raise is left in place
RaisedLeftInPlace ==
    \E i \in 1..Len(pdf_files) :
        /\ pdf_files[i].visited /\ pdf_files[i].response.has /\ AnswerQuality(i).raised
        /\ pdf_files[i].folder = "inbox"


(***************************************************************************)
(* Properties of extract_missing_fields (checked under SpecFill).          *)
(***************************************************************************)
\* reading or parsing the response file fails
FillFails ==
    ~response_file.readable \/ GetQualityAssessmentText(response_file.content).raised

\* the returned map keeps the non-empty cells of the row, and what it adds
\* or changes is a non-empty text of the response
ReturnedKeepsRow ==
    pc = "filled" =>
        /\ \A f \in DOMAIN paper_data :
              /\ f \in DOMAIN updated_data.value
              /\ Truthy(paper_data[f]) => updated_data.value[f] = paper_data[f]
        /\ \A f \in DOMAIN updated_data.value :
              (f \notin DOMAIN paper_data \/ updated_data.value[f] # paper_data[f]) =>
                  /\ Truthy(updated_data.value[f])
                  /\ Find(response_file.content, updated_data.value[f], 1) # 0
        /\ FillFails => updated_data.value = paper_data

\* C27: extract_missing_fields returns a map that agrees with paper_data on
\* every field whose value there is not empty, adds or fills a field only
\* with a non-empty extracted value, and leaves the paper_data argument as it
\* was; when reading or parsing the response file fails it returns
\* paper_data unchanged.
C27_FillsOnlyMissing ==
    /\ []ReturnedKeepsRow
    /\ [][paper_data' = paper_data]_vars

\* a row with a title and an empty year, a response with another title and
\* a year: the title is kept and the year filled
C27_Witness ==
    /\ pc = "filled"
    /\ ~FillFails
    /\ K_TITLE \in DOMAIN paper_data /\ paper_data[K_TITLE] = V_JaneDoe
    /\ K_YEAR \in DOMAIN paper_data /\ paper_data[K_YEAR] = NoneCell
    /\ de_fields = <<[key |-> K_TITLE, value |-> V_2023], [key |-> K_YEAR, value |-> V_2023]>>
    /\ updated_data.value[K_TITLE] = V_JaneDoe
    /\ updated_data.value[K_YEAR] = V_2023

\* a special field found by the manual pattern fills its column
SpecialFieldFilled ==
    /\ pc = "filled"
    /\ S_HardwareSoftware \notin DOMAIN paper_data
    /\ S_HardwareSoftware \in DOMAIN updated_data.value

\* the call returned what it was given because the parser raised
ReturnedUnchangedAfterRaise ==
    /\ pc = "filled"
    /\ response_file.readable
    /\ FillFails
    /\ de_fields = <<[key |-> K_YEAR, value |-> V_2023]>>
    /\ K_YEAR \notin DOMAIN paper_data


(***************************************************************************)
(* The pairs of the quality map.                                           *)
(***************************************************************************)
\* the keys of the total: TOTAL_SCORE and the empty TOTAL_SCORE_SCORE that
\* the flattening writes next to it
TotalKeys == {S_TOTAL_SCORE, S_TOTAL_SCORE \o S_SCORE}

\* every item id has both its keys or none, and every key that is not a key
\* of the total is the description key or the score key of an item
StoredInPairs(map) ==
    /\ \A id \in ItemIds : (id \in DOMAIN map) <=> (id \o S_SCORE \in DOMAIN map)
    /\ \A k \in (DOMAIN map) \ TotalKeys :
          IF EndsWith(k, S_SCORE)
          THEN Slice(k, 1, Len(k) - Len(S_SCORE) + 1) \in DOMAIN map
          ELSE k \o S_SCORE \in DOMAIN map

\* C28: in every map returned by get_quality_assessment_text an item's
\* description key <id> is present if and only if its score key <id>_SCORE
\* is present, whatever the tier.
C28_StoredInPairs ==
    (pc = "qa_done" /\ ~qa_out.raised) => StoredInPairs(qa_out.map)

\* a marked block of two items, the second with a score that float()
\* rejects: the first item has both keys, the second none
C28_Witness ==
    /\ pc = "qa_done"
    /\ ~qa_out.raised
    /\ QaTier(response) = "tier1"
    /\ Len(qa_items) = 2
    /\ qa_items[1].id = QE1 /\ qa_items[2].id = QE2
    /\ qa_items[1].score = <<"0">>
    /\ QE1 \in DOMAIN qa_out.map /\ QE1 \o S_SCORE \in DOMAIN qa_out.map
    /\ QE2 \notin DOMAIN qa_out.map /\ QE2 \o S_SCORE \notin DOMAIN qa_out.map

\* the same pairing in the legacy tier and in tier 2
PairStoredByLegacy ==
    /\ pc = "qa_done" /\ ~qa_out.raised /\ QaTier(response) = "legacy"
    /\ QE1 \in DOMAIN qa_out.map /\ QE1 \o S_SCORE \in DOMAIN qa_out.map
PairStoredByTier2 ==
    /\ pc = "qa_done" /\ ~qa_out.raised /\ QaTier(response) = "tier2"
    /\ QE1 \in DOMAIN qa_out.map /\ QE1 \o S_SCORE \in DOMAIN qa_out.map


(***************************************************************************)
(* Properties of send_prompt (checked under SpecPrompt).                   *)
(***************************************************************************)
ReturnedOk(reply) == reply.outcome = "replied" /\ reply.status = 200

\* C29: send_prompt requests the generate endpoint only after the chat
\* request returned a status other than 200 or raised; when the chat
\* endpoint returns 200 its content is returned and the generate endpoint is
\* never requested; None is returned only when the generate request failed
\* as well.
C29_GenerateOnlyAfterChatFailed ==
    /\ \A i \in 1..Len(requests) :
          requests[i].endpoint = "generate" =>
              /\ i = 2
              /\ requests[1].endpoint = "chat"
              /\ ~ReturnedOk(requests[1].reply)
    /\ (requests # << >> /\ ReturnedOk(requests[1].reply)) =>
          /\ Len(requests) = 1
          /\ pc = "returned"
          /\ prompt_out.value = BodyText(requests[1].reply.body)
    /\ (pc = "returned" /\ prompt_out.value = NoneCell) =>
          /\ Len(requests) = 2
          /\ ~(ReturnedOk(requests[2].reply) /\ requests[2].reply.body \in {"text", "no_key"})

\* what the code does: the generate request follows every chat request from
\* which the inner try block did not return, a reply 200 whose body cannot
\* be decoded included
GenerateFollowsChatStep ==
    /\ Len(requests) <= 2
    /\ \A i \in 1..Len(requests) : requests[i].endpoint = (IF i = 1 THEN "chat" ELSE "generate")
    /\ Len(requests) = 2 => ~ChatStep(requests[1].reply).returns
    /\ (pc = "returned" /\ Len(requests) = 1) =>
          /\ ChatStep(requests[1].reply).returns
          /\ prompt_out.value = BodyText(requests[1].reply.body)

\* the chat endpoint replied 200 and the generate endpoint was requested
GenerateAfterChat200 ==
    /\ pc = "returned"
    /\ Len(requests) = 2
    /\ ReturnedOk(requests[1].reply)
    /\ requests[2].endpoint = "generate"


(***************************************************************************)
(* Properties of the recovery of apply_excel_template (checked under       *)
(* SpecRecover).                                                           *)
(***************************************************************************)
\* C30: apply_excel_template ends with True or False for every input and
\* every state of the workbook, and its recovery path (remove the file, call
\* itself again) does not recurse without a bound when the error that
\* started it persists: the recursion never uses up the frames the
\* interpreter allows.
C30_RecoveryBounded ==
    /\ Len(stack) < RecursionLimit
    /\ pc = "excel" => (last_call.op = "template" /\ last_call.ok \in BOOLEAN)

\* an error of the save alone is recovered from, or given up, in the second
\* frame
SaveFailureRecursesOnce ==
    (stack # << >> /\ ~StartsWithRaises(stack[1].identifiers)) => Len(stack) <= 2

\* an error that does not depend on the file adds frames for as long as the
\* interpreter allows and never gives True
PersistentErrorNeverTrue ==
    (pc = "template_return" /\ StartsWithRaises(stack[1].identifiers)) => ~last_call.ok

\* the recursion came to the limit: False is returned with the file removed
RecursionAtLimit ==
    /\ pc = "template_return"
    /\ Len(stack) = RecursionLimit
    /\ ~last_call.ok
    /\ file = "missing"

\* with the interpreter's limit the call does return
SpecRecoverFair == SpecRecover /\ WF_vars(NextRecover)
TemplateCallReturns == <>(pc = "excel")

====
